---- MODULE Spec2Model ----
(***************************************************************************)
(* The notification Manager of package notify (src/slack.go, second part): *)
(* a registry map guarded by a sync.RWMutex, targeted send, synchronous    *)
(* broadcast under the read lock, and concurrent broadcast with one        *)
(* goroutine per snapshotted notifier, a WaitGroup and a buffered result   *)
(* channel closed by a separate goroutine.                                 *)
(*                                                                         *)
(* Callers are modelled as call slots: a slot runs one Manager method from *)
(* its first statement to its return, one code step per action.  Provider  *)
(* sends are external: a send that has started returns, at any later time, *)
(* nil or the provider's own error, or the context's error once the        *)
(* context passed to it has been cancelled.                                *)
(***************************************************************************)
EXTENDS Integers, Sequences, FiniteSets, TLC

\* Bounds of the model: caller slots, concurrent callers of the registry
\* scenario, provider names, provider objects, and the number of Manager calls
\* issued in one behaviour (the scenario with a broadcaster, a registrar and a
\* reader needs one call more).
NumSlots == 3
NumCallers == 3
NumNames == 2
NumProviders == 3
MaxCalls == 3
MaxSyncCalls == 4
MaxLiveCalls == 2
MaxWriterCalls == 2

Slots == 1..NumSlots
Names == 1..NumNames
Providers == 1..NumProviders

\* the nil Notifier, and the empty string as a name
NilProvider == 0
EmptyName == 0

\* a provider object whose Name() returns the empty string
Unnamed == NumProviders + 1

\* a nil pointer of a provider type held in the Notifier interface, such as
\* the *TelegramNotifier NewTelegramNotifier returns with an error: not equal
\* to the nil Notifier, and its Name() answers ("telegram") without touching
\* the receiver
NilPointer == NumProviders + 2

\* every value Register can be called with, and every name a caller can ask for
AnyProviders == Providers \cup {NilProvider, Unnamed, NilPointer}
AnyNames == Names \cup {EmptyName}

\* Notifier.Name(): providers p and p + NumNames are distinct objects that
\* report the same name.
NameOf(p) ==
    IF p = Unnamed THEN EmptyName
    ELSE IF p = NilPointer THEN 1
    ELSE ((p - 1) % NumNames) + 1

\* error values
NoErr == [kind |-> "nil", prov |-> 0]
ProviderErr(p) == [kind |-> "provider", prov |-> p]
CtxErr == [kind |-> "canceled", prov |-> 0]
DuplicateErr(n) == [kind |-> "duplicate", prov |-> n]
InvalidErr == [kind |-> "invalid", prov |-> 0]
NotFoundErr(n) == [kind |-> "notfound", prov |-> n]

VARIABLES
    notifiers,  \* m.notifiers: the registry map, name -> provider
    mu,         \* m.mu: [readers: slots holding RLock, writer: slot in Lock (or {}), held: writer past Lock]
    pc,         \* per slot: the statement the caller is at
    op,         \* per slot: the method being run and its arguments (ctx: the context the caller passes,
                \* msg: the text or message passed, after: the calls that had returned when this one began,
                \* reg: the registry as it was when the call began, lock: the registry as it was
                \* when the call took the read lock, where the scenario notes them)
    ret,        \* per slot: the value the method returned
    cancelled,  \* per slot: whether the context the caller passed is cancelled
    cur,        \* per slot: the send in progress in the caller's own thread: registry name, notifier,
                \* context, capability invoked (rich: SendWithOptions) and the text or message passed
    visited,    \* per slot: names the range loop of Broadcast has produced, in order
    sent,       \* per slot: name -> number of provider sends started by the call
    failed,     \* per slot: names whose provider send returned an error during the call
    errors,     \* per slot: Broadcast's errors slice
    returned,   \* per slot: the provider sends of the caller's own thread that have returned, in order, each with what it returned
    snap,       \* per slot: BroadcastAsync's local copy of the registry
    units,      \* per slot: name -> state of the goroutine spawned for it
    wg,         \* per slot: the WaitGroup counter
    ch,         \* per slot: resultChan's buffer
    chCap,      \* per slot: cap(resultChan)
    closed,     \* per slot: resultChan is closed
    closer,     \* per slot: state of the goroutine that waits and closes
    recvd,      \* per slot: results the caller has received from the channel
    panicked,   \* a goroutine panicked (send on closed channel, negative WaitGroup, double close)
    calls,      \* number of Manager calls issued so far
    tg          \* the Telegram side: the config NewTelegramNotifier was last called with, the
                \* notifier it returned, the Message of the last send, the payload of the
                \* request that send issued, whether the request is awaiting its response,
                \* and the error last returned
    ,
    sl          \* the Slack side: the config NewSlackNotifier was last called with, whether it
                \* returned a notifier and the notifier's fields, the Message of the last send,
                \* the method that last called the Slack API with the channel and the options it passed,
                \* whether the call is awaiting its response, and the error last returned

managerVars == <<notifiers, mu, pc, op, ret, cancelled, cur, visited, sent, failed, errors,
                 returned, snap, units, wg, ch, chCap, closed, closer, recvd, panicked, calls>>

vars == <<managerVars, tg, sl>>

syncVars == <<cur, visited, sent, failed, errors, returned>>
asyncVars == <<snap, units, wg, ch, chCap, closed, closer, recvd>>

EmptyMap == [n \in {} |-> n]
\* texts / messages a caller passes
Msgs == {"hi", "alert"}
NoMsg == ""

\* the text a broadcast is called with
BroadcastMsg == "hi"

NoOp == [name |-> "none", arg |-> 0, rich |-> FALSE, ctx |-> 0, msg |-> NoMsg, after |-> {},
         reg |-> EmptyMap, lock |-> EmptyMap]
NoRet == [kind |-> "none"]

\* (*TelegramNotifier)(nil), no Message, no request, no TelegramConfig
NilTelegram == [botToken |-> "", chatID |-> "", parseMode |-> ""]
NoMessage == [Text |-> "", Title |-> "", Priority |-> "", Channel |-> ""]
NoRequest == [method |-> ""]
NoTelegram ==
    [config |-> [BotToken |-> "", ChatID |-> "", ParseMode |-> ""], t |-> NilTelegram, msg |-> NoMessage, req |-> NoRequest,
     busy |-> FALSE, err |-> NoErr]
\* no SlackConfig, no SlackNotifier, no Message, no call of the Slack API
NoSlack ==
    [config |-> [Token |-> "", WebhookURL |-> "", DefaultChannel |-> "", Username |-> "",
                 IconEmoji |-> ""],
     made |-> FALSE,
     s |-> [client |-> "", defaultChannel |-> "", username |-> "", iconEmoji |-> ""],
     msg |-> [Text |-> "", Title |-> "", Priority |-> "", Channel |-> "", Attachments |-> <<>>,
              Metadata |-> ""],
     post |-> [call |-> "", channel |-> "", options |-> <<>>], posted |-> FALSE, busy |-> FALSE, err |-> NoErr]
NoCur == [name |-> 0, nt |-> 0, ctx |-> 0, rich |-> FALSE, msg |-> NoMsg]
NoUnit == [st |-> "none", nt |-> 0, ctx |-> 0, sends |-> 0, err |-> NoErr]

\* (mutant) the insert replaces the map by one that holds the new entry alone
MapPutAlone(m, k, v) == [n \in {k} |-> v]

\* (mutant) the delete has no effect
MapDeleteNothing(m, k) == m

\* (mutant) the delete clears the map
MapDeleteAll(m, k) == EmptyMap

\* map insert and delete, as Go's m[k] = v and delete(m, k)
MapPut(m, k, v) == [n \in (DOMAIN m) \cup {k} |-> IF n = k THEN v ELSE m[n]]
MapDelete(m, k) == [n \in (DOMAIN m) \ {k} |-> m[n]]

Range(q) == {q[i] : i \in 1..Len(q)}

----------------------------------------------------------------------------
\* sync.RWMutex.  A writer first announces itself (from then on RLock blocks),
\* then waits for the readers that hold the lock to leave.

MuFree == [readers |-> {}, writer |-> {}, held |-> FALSE]

\* (mutant) a reader does not wait for a writer
CanRLockAlways(m) == TRUE

CanRLock(m) == m.writer = {}
RLock(m, t) == [m EXCEPT !.readers = @ \cup {t}]
\* (mutant) a reader leaves without m.mu.RUnlock()
RUnlockForgotten(m, t) == m

RUnlock(m, t) == [m EXCEPT !.readers = @ \ {t}]
CanLock(m) == m.writer = {}
LockAnnounce(m, t) == [m EXCEPT !.writer = {t}]
\* (mutant) the writer does not wait for the readers that hold the lock
CanLockAcquireEager(m, t) == m.writer = {t}

CanLockAcquire(m, t) == m.writer = {t} /\ m.readers = {}
LockAcquire(m, t) == [m EXCEPT !.held = TRUE]
Unlock(m, t) == [m EXCEPT !.writer = {}, !.held = FALSE]

----------------------------------------------------------------------------
Init ==
    /\ notifiers = EmptyMap
    /\ mu = MuFree
    /\ pc = [t \in Slots |-> "idle"]
    /\ op = [t \in Slots |-> NoOp]
    /\ ret = [t \in Slots |-> NoRet]
    /\ cancelled = [t \in Slots |-> FALSE]
    /\ cur = [t \in Slots |-> NoCur]
    /\ visited = [t \in Slots |-> <<>>]
    /\ sent = [t \in Slots |-> [n \in Names |-> 0]]
    /\ failed = [t \in Slots |-> {}]
    /\ errors = [t \in Slots |-> <<>>]
    /\ returned = [t \in Slots |-> <<>>]
    /\ snap = [t \in Slots |-> EmptyMap]
    /\ units = [t \in Slots |-> [n \in Names |-> NoUnit]]
    /\ wg = [t \in Slots |-> 0]
    /\ ch = [t \in Slots |-> <<>>]
    /\ chCap = [t \in Slots |-> 0]
    /\ closed = [t \in Slots |-> FALSE]
    /\ closer = [t \in Slots |-> "none"]
    /\ recvd = [t \in Slots |-> <<>>]
    /\ panicked = FALSE
    /\ calls = 0
    /\ tg = NoTelegram
    /\ sl = NoSlack

\* the calls that have returned and whose caller still holds the result
ReturnedCalls == {s \in Slots : pc[s] = "done"}

\* no note is kept of the calls that returned before a call
NoNote == {}

\* A caller enters a Manager method.  h notes calls that have returned before
\* this one begins (ReturnedCalls or a part of it; NoNote where the scenario
\* does not need the order of calls).
Enter(t, o, h, first) ==
    /\ pc[t] = "idle"
    /\ h \subseteq ReturnedCalls
    /\ calls' = calls + 1
    /\ op' = [op EXCEPT ![t] = [o EXCEPT !.after = h]]
    /\ pc' = [pc EXCEPT ![t] = first]
    /\ UNCHANGED <<notifiers, mu, ret, cancelled, syncVars, asyncVars, panicked, tg, sl>>

----------------------------------------------------------------------------
\* Register and Unregister

\* if notifier == nil { return ... } comes before m.mu.Lock()
RegisterFirst(p) == IF p = NilProvider THEN "reg_nil" ELSE "w_lock"

CallRegister(t, p, h) ==
    Enter(t, [NoOp EXCEPT !.name = "Register", !.arg = p], h, RegisterFirst(p))

\* return fmt.Errorf("notifier cannot be nil")
RegisterNil(t) ==
    /\ pc[t] = "reg_nil"
    /\ ret' = [ret EXCEPT ![t] = [kind |-> "error", err |-> InvalidErr]]
    /\ pc' = [pc EXCEPT ![t] = "done"]
    /\ UNCHANGED <<notifiers, mu, op, cancelled, syncVars, asyncVars, panicked, calls, tg, sl>>

CallUnregister(t, n, h) == Enter(t, [NoOp EXCEPT !.name = "Unregister", !.arg = n], h, "w_lock")

\* m.mu.Lock(), first half: the writer announces itself
WLock(t) ==
    /\ pc[t] = "w_lock"
    /\ CanLock(mu)
    /\ mu' = LockAnnounce(mu, t)
    /\ pc' = [pc EXCEPT ![t] = "w_wait"]
    /\ UNCHANGED <<notifiers, op, ret, cancelled, syncVars, asyncVars, panicked, calls, tg, sl>>

\* m.mu.Lock(), second half: the readers have left
WAcquire(t) ==
    /\ pc[t] = "w_wait"
    /\ CanLockAcquire(mu, t)
    /\ mu' = LockAcquire(mu, t)
    /\ pc' = [pc EXCEPT ![t] = IF op[t].name = "Register" THEN "reg_body" ELSE "unreg_body"]
    /\ UNCHANGED <<notifiers, op, ret, cancelled, syncVars, asyncVars, panicked, calls, tg, sl>>

\* (mutant) Register stores the provider without looking at the existing entry
RegisterMapOverwrite(m, p) == MapPut(m, NameOf(p), p)

\* (mutant) Register reports success without storing the provider
RegisterMapNoStore(m, p) == m

\* (mutant) Register stores the provider under a key of its own making
RegisterMapOneKey(m, p) == IF NameOf(p) \in DOMAIN m THEN m ELSE MapPut(m, 1, p)

\* (mutant) Register returns nil whether or not it stored the provider
RegisterRetNil(m, p) == NoErr

\* the registry and the result of Register's body for provider p
RegisterMap(m, p) == IF NameOf(p) \in DOMAIN m THEN m ELSE MapPut(m, NameOf(p), p)
RegisterRet(m, p) == IF NameOf(p) \in DOMAIN m THEN DuplicateErr(NameOf(p)) ELSE NoErr

RegisterBody(t) ==
    /\ pc[t] = "reg_body"
    /\ notifiers' = RegisterMap(notifiers, op[t].arg)
    /\ ret' = [ret EXCEPT ![t] = [kind |-> "error", err |-> RegisterRet(notifiers, op[t].arg)]]
    /\ pc' = [pc EXCEPT ![t] = "w_unlock"]
    /\ UNCHANGED <<mu, op, cancelled, syncVars, asyncVars, panicked, calls, tg, sl>>

\* (mutant) Unregister reports a name that is not registered
UnregisterRetStrict(m, n) ==
    IF n \in DOMAIN m THEN [kind |-> "void"] ELSE [kind |-> "error", err |-> NotFoundErr(n)]

\* Unregister has no result: nothing is reported, whether the name was there or not
UnregisterRet(m, n) == [kind |-> "void"]

UnregisterBody(t) ==
    /\ pc[t] = "unreg_body"
    /\ notifiers' = MapDelete(notifiers, op[t].arg)
    /\ ret' = [ret EXCEPT ![t] = UnregisterRet(notifiers, op[t].arg)]
    /\ pc' = [pc EXCEPT ![t] = "w_unlock"]
    /\ UNCHANGED <<mu, op, cancelled, syncVars, asyncVars, panicked, calls, tg, sl>>

\* the deferred m.mu.Unlock()
WUnlock(t) ==
    /\ pc[t] = "w_unlock"
    /\ mu' = Unlock(mu, t)
    /\ pc' = [pc EXCEPT ![t] = "done"]
    /\ UNCHANGED <<notifiers, op, ret, cancelled, syncVars, asyncVars, panicked, calls, tg, sl>>

----------------------------------------------------------------------------
\* The outcomes a provider send can return: nil, the provider's own error, or
\* the context's error once the context it was given has been cancelled.
Outcomes(nt, ctx) ==
    {NoErr, ProviderErr(nt)} \cup (IF ctx \in Slots /\ cancelled[ctx] THEN {CtxErr} ELSE {})

\* the caller's context is cancelled
Cancel(t) ==
    /\ pc[t] \notin {"idle", "done"}
    /\ op[t].ctx \in Slots
    /\ ~cancelled[op[t].ctx]
    /\ cancelled' = [cancelled EXCEPT ![op[t].ctx] = TRUE]
    /\ UNCHANGED <<notifiers, mu, pc, op, ret, syncVars, asyncVars, panicked, calls, tg, sl>>

----------------------------------------------------------------------------
\* Get, List, Send / SendWithOptions

CallGet(t, n, h) == Enter(t, [NoOp EXCEPT !.name = "Get", !.arg = n], h, "r_lock")

CallList(t, h) == Enter(t, [NoOp EXCEPT !.name = "List"], h, "r_lock")

\* Send(ctx, provider, message) or, when rich, SendWithOptions(ctx, provider, msg)
CallSend(t, n, rich, msg, h) ==
    Enter(t, [NoOp EXCEPT !.name = "Send", !.arg = n, !.rich = rich, !.ctx = t, !.msg = msg], h, "r_lock")

\* the statement after m.mu.RLock() in each method
AfterRLock(o) ==
    CASE o.name \in {"Get", "Send"} -> "get_body"
      [] o.name = "List" -> "list_body"
      [] o.name = "Broadcast" -> "b_loop"
      [] o.name = "BroadcastAsync" -> "ba_copy"

\* the statement after m.mu.RUnlock() in each method
AfterRUnlock(o) ==
    CASE o.name \in {"Get", "List", "Broadcast"} -> "done"
      [] o.name = "Send" -> "send_check"
      [] o.name = "BroadcastAsync" -> "ba_make"

\* m.mu.RLock()
RLockStep(t) ==
    /\ pc[t] = "r_lock"
    /\ CanRLock(mu)
    /\ mu' = RLock(mu, t)
    /\ pc' = [pc EXCEPT ![t] = AfterRLock(op[t])]
    /\ UNCHANGED <<notifiers, op, ret, cancelled, syncVars, asyncVars, panicked, calls, tg, sl>>

\* the same step, the registry of the moment noted with the call
RLockNoting(t) ==
    /\ pc[t] = "r_lock"
    /\ CanRLock(mu)
    /\ mu' = RLock(mu, t)
    /\ pc' = [pc EXCEPT ![t] = AfterRLock(op[t])]
    /\ op' = [op EXCEPT ![t].lock = notifiers]
    /\ UNCHANGED <<notifiers, ret, cancelled, syncVars, asyncVars, panicked, calls, tg, sl>>

\* m.mu.RUnlock(), deferred or explicit
RUnlockStep(t) ==
    /\ pc[t] = "r_unlock"
    /\ mu' = RUnlock(mu, t)
    /\ pc' = [pc EXCEPT ![t] = AfterRUnlock(op[t])]
    /\ UNCHANGED <<notifiers, op, ret, cancelled, syncVars, asyncVars, panicked, calls, tg, sl>>

\* notifier, exists := m.notifiers[name]
Lookup(m, n) ==
    IF n \in DOMAIN m THEN [kind |-> "lookup", nt |-> m[n], exists |-> TRUE]
    ELSE [kind |-> "lookup", nt |-> 0, exists |-> FALSE]

\* (mutant) the lookup leaves an entry without provider for a name it did
\* not find
AfterLookupInserts(m, n) == IF n \in DOMAIN m THEN m ELSE MapPut(m, n, NilProvider)

\* the map after the index expression m.notifiers[name]: as it was
AfterLookup(m, n) == m

GetBody(t) ==
    /\ pc[t] = "get_body"
    /\ ret' = [ret EXCEPT ![t] = Lookup(notifiers, op[t].arg)]
    /\ notifiers' = AfterLookup(notifiers, op[t].arg)
    /\ pc' = [pc EXCEPT ![t] = "r_unlock"]
    /\ UNCHANGED <<mu, op, cancelled, syncVars, asyncVars, panicked, calls, tg, sl>>

\* (mutant) names := make([]string, len(m.notifiers)): the appended names
\* follow as many empty strings
ListSlicesPadded(m) ==
    {[i \in 1..(2 * Cardinality(DOMAIN m)) |->
         IF i <= Cardinality(DOMAIN m) THEN EmptyName ELSE q[i - Cardinality(DOMAIN m)]] :
       q \in {r \in [1..Cardinality(DOMAIN m) -> DOMAIN m] :
                \A i, j \in DOMAIN r : r[i] = r[j] => i = j}}

\* names := make([]string, 0, len(m.notifiers)); for name := range m.notifiers
\* { names = append(names, name) }: every key once, in the order the map
\* iteration happens to take
ListSlices(m) ==
    {q \in [1..Cardinality(DOMAIN m) -> DOMAIN m] :
        \A i, j \in DOMAIN q : q[i] = q[j] => i = j}

ListBody(t) ==
    /\ pc[t] = "list_body"
    /\ \E q \in ListSlices(notifiers) :
          ret' = [ret EXCEPT ![t] = [kind |-> "names", names |-> q]]
    /\ pc' = [pc EXCEPT ![t] = "r_unlock"]
    /\ UNCHANGED <<notifiers, mu, op, cancelled, syncVars, asyncVars, panicked, calls, tg, sl>>

\* (mutant) Send does not look at exists and calls whatever Get returned
SendFoundAlways(r) == TRUE

\* if !exists { return fmt.Errorf("notifier %s not found", provider) }
SendFound(r) == r.exists

\* Send after m.Get returned: not found, or the call of notifier.Send /
\* notifier.SendWithOptions with the caller's ctx and message
SendCheck(t) ==
    /\ pc[t] = "send_check"
    /\ IF SendFound(ret[t])
       THEN /\ cur' = [cur EXCEPT ![t] = [name |-> op[t].arg, nt |-> ret[t].nt, ctx |-> op[t].ctx,
                                         rich |-> op[t].rich, msg |-> op[t].msg]]
            /\ sent' = [sent EXCEPT ![t][op[t].arg] = @ + 1]
            /\ pc' = [pc EXCEPT ![t] = "send_call"]
            /\ ret' = ret
       ELSE /\ ret' = [ret EXCEPT ![t] = [kind |-> "error", err |-> NotFoundErr(op[t].arg)]]
            /\ pc' = [pc EXCEPT ![t] = "done"]
            /\ UNCHANGED <<cur, sent>>
    /\ UNCHANGED <<notifiers, mu, op, cancelled, visited, failed, errors, returned, asyncVars,
                   panicked, calls, tg, sl>>

\* (mutant) Send tags a provider's error with the provider's name, as Broadcast does
SendResultTagged(n, e) == IF e = NoErr THEN e ELSE [kind |-> "tagged", name |-> n, wraps |-> e]

\* return notifier.Send(ctx, message): the provider's result as it is
SendResult(n, e) == e

\* notifier.Send returns and Manager.Send returns its result
SendReturn(t, e) ==
    /\ pc[t] = "send_call"
    /\ e \in Outcomes(cur[t].nt, cur[t].ctx)
    /\ ret' = [ret EXCEPT ![t] = [kind |-> "error", err |-> SendResult(cur[t].name, e)]]
    /\ returned' = [returned EXCEPT ![t] = Append(@, [name |-> cur[t].name, err |-> e])]
    /\ failed' = [failed EXCEPT ![t] = IF e = NoErr THEN @ ELSE @ \cup {cur[t].name}]
    /\ cur' = [cur EXCEPT ![t] = NoCur]
    /\ pc' = [pc EXCEPT ![t] = "done"]
    /\ UNCHANGED <<notifiers, mu, op, cancelled, visited, sent, errors, asyncVars, panicked, calls, tg, sl>>

----------------------------------------------------------------------------
\* Broadcast / BroadcastWithOptions: the range loop runs under the read lock

CallBroadcast(t, rich, h) ==
    Enter(t, [NoOp EXCEPT !.name = "Broadcast", !.rich = rich, !.ctx = t, !.msg = BroadcastMsg], h, "r_lock")

\* the same call, the registry of the moment of the call noted with it
CallBroadcastNoting(t, rich, h) ==
    Enter(t, [NoOp EXCEPT !.name = "Broadcast", !.rich = rich, !.ctx = t, !.msg = BroadcastMsg,
                          !.reg = notifiers], h, "r_lock")

\* names the range over m.notifiers has still to produce
BroadcastTodo(t) == (DOMAIN notifiers) \ Range(visited[t])

\* (mutant) the loop returns at the first failure
BroadcastAfterStop(e) == IF e = NoErr THEN "b_loop" ELSE "b_end"

\* the loop's next step after a send returned e: the loop goes on whatever e is
BroadcastAfter(e) == "b_loop"

\* (mutant) the newest failure is put first
BroadcastErrorsPrepend(errs, n, e) ==
    IF e = NoErr THEN errs ELSE <<[name |-> n, wraps |-> e]>> \o errs

\* errors = append(errors, fmt.Errorf("%s: %w", name, err)) when err != nil
BroadcastErrors(errs, n, e) ==
    IF e = NoErr THEN errs ELSE Append(errs, [name |-> n, wraps |-> e])

\* (mutant) the loop starts the next send without waiting for the one in progress
LoopAtNextEager(p) == p \in {"b_loop", "b_send"}

\* the range loop takes its next entry when the body of the previous
\* iteration, the send included, is over
LoopAtNext(p) == p = "b_loop"

\* next iteration: notifier.Send(ctx, message) / notifier.SendWithOptions(ctx, msg) is called
BroadcastNext(t) ==
    /\ LoopAtNext(pc[t])
    /\ \E n \in BroadcastTodo(t) :
          /\ cur' = [cur EXCEPT ![t] = [name |-> n, nt |-> notifiers[n], ctx |-> op[t].ctx,
                                       rich |-> op[t].rich, msg |-> op[t].msg]]
          /\ visited' = [visited EXCEPT ![t] = Append(@, n)]
          /\ sent' = [sent EXCEPT ![t][n] = @ + 1]
    /\ pc' = [pc EXCEPT ![t] = "b_send"]
    /\ UNCHANGED <<notifiers, mu, op, ret, cancelled, failed, errors, returned, asyncVars,
                   panicked, calls, tg, sl>>

\* the send returns; a failure is appended to errors
BroadcastReturn(t, e) ==
    /\ pc[t] = "b_send"
    /\ e \in Outcomes(cur[t].nt, cur[t].ctx)
    /\ errors' = [errors EXCEPT ![t] = BroadcastErrors(@, cur[t].name, e)]
    /\ returned' = [returned EXCEPT ![t] = Append(@, [name |-> cur[t].name, err |-> e])]
    /\ failed' = [failed EXCEPT ![t] = IF e = NoErr THEN @ ELSE @ \cup {cur[t].name}]
    /\ cur' = [cur EXCEPT ![t] = NoCur]
    /\ pc' = [pc EXCEPT ![t] = BroadcastAfter(e)]
    /\ UNCHANGED <<notifiers, mu, op, ret, cancelled, visited, sent, asyncVars, panicked, calls, tg, sl>>

\* the loop is over: return errors (the deferred RUnlock follows)
BroadcastEnd(t) ==
    /\ \/ pc[t] = "b_loop" /\ BroadcastTodo(t) = {}
       \/ pc[t] = "b_end"
    /\ ret' = [ret EXCEPT ![t] = [kind |-> "errors", errs |-> errors[t]]]
    /\ pc' = [pc EXCEPT ![t] = "r_unlock"]
    /\ UNCHANGED <<notifiers, mu, op, cancelled, syncVars, asyncVars, panicked, calls, tg, sl>>

----------------------------------------------------------------------------
\* BroadcastAsync / BroadcastAsyncWithOptions

CallBroadcastAsync(t, rich, h) ==
    Enter(t, [NoOp EXCEPT !.name = "BroadcastAsync", !.rich = rich, !.ctx = t, !.msg = BroadcastMsg], h, "r_lock")

\* entries the copy loop (a range over m.notifiers) has still to produce
CopyTodo(t) == (DOMAIN notifiers) \ (DOMAIN snap[t])

\* one iteration of the copy loop: notifiers[name] = notifier
SnapshotCopy(t) ==
    /\ pc[t] = "ba_copy"
    /\ \E n \in CopyTodo(t) : snap' = [snap EXCEPT ![t] = MapPut(@, n, notifiers[n])]
    /\ UNCHANGED <<notifiers, mu, pc, op, ret, cancelled, syncVars, units, wg, ch, chCap,
                   closed, closer, recvd, panicked, calls, tg, sl>>

\* the copy loop is over; m.mu.RUnlock() follows
SnapshotEnd(t) ==
    /\ pc[t] = "ba_copy"
    /\ CopyTodo(t) = {}
    /\ pc' = [pc EXCEPT ![t] = "r_unlock"]
    /\ UNCHANGED <<notifiers, mu, op, ret, cancelled, syncVars, asyncVars, panicked, calls, tg, sl>>

\* (mutant) resultChan := make(chan NotificationResult)
ChanCapUnbuffered(m) == 0

\* resultChan := make(chan NotificationResult, len(notifiers))
ChanCap(m) == Cardinality(DOMAIN m)

MakeChan(t) ==
    /\ pc[t] = "ba_make"
    /\ chCap' = [chCap EXCEPT ![t] = ChanCap(snap[t])]
    /\ pc' = [pc EXCEPT ![t] = "ba_spawn"]
    /\ UNCHANGED <<notifiers, mu, op, ret, cancelled, syncVars, snap, units, wg, ch,
                   closed, closer, recvd, panicked, calls, tg, sl>>

\* (mutant) the spawn loop ranges over the live registry, after the lock is released
SpawnSourceLive(t) == notifiers

\* the map the spawn loop ranges over: the local copy
SpawnSource(t) == snap[t]

\* names the spawn loop has still to produce
SpawnTodo(t) == {n \in DOMAIN SpawnSource(t) : units[t][n].st = "none"}

\* the context a unit passes to the provider: the caller's ctx, captured by the closure
UnitCtx(t) == op[t].ctx

\* one iteration: wg.Add(1); go func(n, nt) {...}(name, notifier)
SpawnUnit(t, n) ==
    /\ pc[t] = "ba_spawn"
    /\ n \in SpawnTodo(t)
    /\ wg' = [wg EXCEPT ![t] = @ + 1]
    /\ units' = [units EXCEPT ![t][n] =
                    [st |-> "ready", nt |-> SpawnSource(t)[n], ctx |-> UnitCtx(t),
                     sends |-> 0, err |-> NoErr]]
    /\ UNCHANGED <<notifiers, mu, pc, op, ret, cancelled, syncVars, snap, ch, chCap,
                   closed, closer, recvd, panicked, calls, tg, sl>>

\* after the loop: go func() { wg.Wait(); close(resultChan) }(); return resultChan
SpawnCloser(t) ==
    /\ pc[t] = "ba_spawn"
    /\ SpawnTodo(t) = {}
    /\ closer' = [closer EXCEPT ![t] = "wait"]
    /\ pc' = [pc EXCEPT ![t] = "ba_recv"]
    /\ UNCHANGED <<notifiers, mu, op, ret, cancelled, syncVars, snap, units, wg, ch,
                   chCap, closed, recvd, panicked, calls, tg, sl>>

\* (mutant) a unit checks ctx first and reports ctx.Err() without calling the provider
UnitCallsUnlessCancelled(t, n) == ~cancelled[units[t][n].ctx]

\* (mutant) a unit gives up, without calling its provider, once another
\* provider of the same broadcast has failed
UnitCallsUnlessFailure(t, n) == \A m \in Names : units[t][m].err = NoErr

\* whether a unit calls the provider at all: always, whatever the context's state
UnitCalls(t, n) == TRUE

\* (mutant) each provider has a lock of its own: a unit starts its send when
\* no unit of another broadcast is inside a send of the same provider
CanStartProviderFree(t, n) ==
    \A s \in Slots \ {t} : \A m \in Names :
        ~(units[s][m].st = "sending" /\ units[s][m].nt = units[t][n].nt)

\* (mutant) the units share a semaphore of one: a unit starts its send when
\* no other unit of the broadcast is inside one
CanStartAlone(t, n) == \A m \in Names : units[t][m].st # "sending"

\* what a spawned unit waits for before it calls its provider: nothing, the
\* goroutine's first statement after the deferred wg.Done() is the call
CanStart(t, n) == TRUE

\* the unit calls nt.Send(ctx, message) / nt.SendWithOptions(ctx, msg)
UnitSend(t, n) ==
    /\ units[t][n].st = "ready"
    /\ CanStart(t, n)
    /\ units' = [units EXCEPT ![t][n] =
                    IF UnitCalls(t, n)
                    THEN [@ EXCEPT !.st = "sending", !.sends = @ + 1]
                    ELSE [@ EXCEPT !.st = "returned", !.err = CtxErr]]
    /\ UNCHANGED <<notifiers, mu, pc, op, ret, cancelled, syncVars, snap, wg, ch, chCap,
                   closed, closer, recvd, panicked, calls, tg, sl>>

\* the provider's send returns err
UnitReturn(t, n, e) ==
    /\ units[t][n].st = "sending"
    /\ e \in Outcomes(units[t][n].nt, units[t][n].ctx)
    /\ units' = [units EXCEPT ![t][n] = [@ EXCEPT !.st = "returned", !.err = e]]
    /\ UNCHANGED <<notifiers, mu, pc, op, ret, cancelled, syncVars, snap, wg, ch, chCap,
                   closed, closer, recvd, panicked, calls, tg, sl>>

\* (mutant) the result carries the error tagged with the provider's name, as
\* the synchronous Broadcast reports it
ResultTagged(n, e) ==
    [Provider |-> n, Success |-> (e = NoErr),
     Error |-> IF e = NoErr THEN e ELSE [kind |-> "tagged", name |-> n, wraps |-> e]]

\* NotificationResult{Provider: n, Success: err == nil, Error: err}
Result(n, e) == [Provider |-> n, Success |-> (e = NoErr), Error |-> e]

\* a channel send goes through when the buffer has room or the receiver is waiting
CanChanSend(t) == Len(ch[t]) < chCap[t] \/ (pc[t] = "ba_recv" /\ ch[t] = <<>>)

\* (mutant) only failures are reported, as in the synchronous Broadcast
DeliversFailuresOnly(t, n) == units[t][n].err # NoErr

\* (mutant) the channel send is abandoned when the context is done
DeliversUnlessCancelled(t, n) == ~cancelled[units[t][n].ctx]

\* whether the unit puts a result on the channel: always, whatever err is
Delivers(t, n) == TRUE

\* resultChan <- NotificationResult{...}; a send on a closed channel panics
UnitDeliver(t, n) ==
    /\ units[t][n].st = "returned"
    /\ IF ~Delivers(t, n)
       THEN UNCHANGED <<ch, panicked>>
       ELSE IF closed[t]
       THEN /\ panicked' = TRUE
            /\ ch' = ch
       ELSE /\ CanChanSend(t)
            /\ ch' = [ch EXCEPT ![t] = Append(@, Result(n, units[t][n].err))]
            /\ panicked' = panicked
    /\ units' = [units EXCEPT ![t][n] = [@ EXCEPT !.st = "delivered"]]
    /\ UNCHANGED <<notifiers, mu, pc, op, ret, cancelled, syncVars, snap, wg, chCap,
                   closed, closer, recvd, calls, tg, sl>>

\* (mutant) wg.Done() is called on the success path only
WgDoneOnSuccess(w, e) == IF e = NoErr THEN w - 1 ELSE w

\* defer wg.Done(): whatever the send returned
WgDone(w, e) == w - 1

\* the deferred wg.Done()
UnitDone(t, n) ==
    /\ units[t][n].st = "delivered"
    /\ wg' = [wg EXCEPT ![t] = WgDone(@, units[t][n].err)]
    /\ units' = [units EXCEPT ![t][n] = [@ EXCEPT !.st = "done"]]
    /\ UNCHANGED <<notifiers, mu, pc, op, ret, cancelled, syncVars, snap, ch, chCap,
                   closed, closer, recvd, panicked, calls, tg, sl>>

\* (mutant) the closing goroutine does not wait for the units
WaitReturnsAtOnce(t) == TRUE

\* wg.Wait() returns when the counter is zero
WaitReturns(t) == wg[t] = 0

CloserWake(t) ==
    /\ closer[t] = "wait"
    /\ WaitReturns(t)
    /\ closer' = [closer EXCEPT ![t] = "woken"]
    /\ UNCHANGED <<notifiers, mu, pc, op, ret, cancelled, syncVars, snap, units, wg, ch,
                   chCap, closed, recvd, panicked, calls, tg, sl>>

\* close(resultChan)
CloserClose(t) ==
    /\ closer[t] = "woken"
    /\ closed' = [closed EXCEPT ![t] = TRUE]
    /\ panicked' = (panicked \/ closed[t])
    /\ closer' = [closer EXCEPT ![t] = "done"]
    /\ UNCHANGED <<notifiers, mu, pc, op, ret, cancelled, syncVars, snap, units, wg, ch,
                   chCap, recvd, calls, tg, sl>>

\* the caller ranges over the channel: one result received
Recv(t) ==
    /\ pc[t] = "ba_recv"
    /\ ch[t] # <<>>
    /\ recvd' = [recvd EXCEPT ![t] = Append(@, Head(ch[t]))]
    /\ ch' = [ch EXCEPT ![t] = Tail(@)]
    /\ UNCHANGED <<notifiers, mu, pc, op, ret, cancelled, syncVars, snap, units, wg,
                   chCap, closed, closer, panicked, calls, tg, sl>>

\* the range ends: the channel is closed and drained
RecvEnd(t) ==
    /\ pc[t] = "ba_recv"
    /\ ch[t] = <<>>
    /\ closed[t]
    /\ ret' = [ret EXCEPT ![t] = [kind |-> "results", res |-> recvd[t]]]
    /\ pc' = [pc EXCEPT ![t] = "done"]
    /\ UNCHANGED <<notifiers, mu, op, cancelled, syncVars, asyncVars, panicked, calls, tg, sl>>

----------------------------------------------------------------------------
\* goroutines of slot t that are still running
Running(t) ==
    \/ closer[t] \notin {"none", "done"}
    \/ \E n \in Names : units[t][n].st \notin {"none", "done"}

\* The caller is done with the call and its results; the slot is free again.
Return(t) ==
    /\ pc[t] = "done"
    /\ ~Running(t)
    /\ pc' = [pc EXCEPT ![t] = "idle"]
    /\ op' = [s \in Slots |-> IF s = t THEN NoOp ELSE [op[s] EXCEPT !.after = @ \ {t}]]
    /\ ret' = [ret EXCEPT ![t] = NoRet]
    /\ cancelled' = [cancelled EXCEPT ![t] = FALSE]
    /\ cur' = [cur EXCEPT ![t] = NoCur]
    /\ visited' = [visited EXCEPT ![t] = <<>>]
    /\ sent' = [sent EXCEPT ![t] = [n \in Names |-> 0]]
    /\ failed' = [failed EXCEPT ![t] = {}]
    /\ errors' = [errors EXCEPT ![t] = <<>>]
    /\ returned' = [returned EXCEPT ![t] = <<>>]
    /\ snap' = [snap EXCEPT ![t] = EmptyMap]
    /\ units' = [units EXCEPT ![t] = [n \in Names |-> NoUnit]]
    /\ wg' = [wg EXCEPT ![t] = 0]
    /\ ch' = [ch EXCEPT ![t] = <<>>]
    /\ chCap' = [chCap EXCEPT ![t] = 0]
    /\ closed' = [closed EXCEPT ![t] = FALSE]
    /\ closer' = [closer EXCEPT ![t] = "none"]
    /\ recvd' = [recvd EXCEPT ![t] = <<>>]
    /\ UNCHANGED <<notifiers, mu, panicked, calls, tg, sl>>

----------------------------------------------------------------------------
\* every error value a provider send can return
SendErrs == {NoErr, CtxErr} \cup {ProviderErr(p) : p \in Providers}

WriterSteps(t) ==
    WLock(t) \/ WAcquire(t) \/ RegisterBody(t) \/ UnregisterBody(t) \/ WUnlock(t)

AsyncSteps(t) ==
    \/ SnapshotCopy(t) \/ SnapshotEnd(t) \/ MakeChan(t) \/ SpawnCloser(t)
    \/ \E n \in Names : SpawnUnit(t, n) \/ UnitSend(t, n) \/ UnitDeliver(t, n) \/ UnitDone(t, n)
    \/ \E n \in Names, e \in SendErrs : UnitReturn(t, n, e)
    \/ CloserWake(t) \/ CloserClose(t) \/ Recv(t) \/ RecvEnd(t)

\* One caller broadcasts concurrently (slot 1) while another registers and
\* unregisters providers (slot 2).
NextAsync ==
    \/ calls < MaxCalls /\ \E p \in Providers : CallRegister(2, p, NoNote)
    \/ calls < MaxCalls /\ \E n \in Names : CallUnregister(2, n, NoNote)
    \/ calls < MaxCalls /\ \E rich \in BOOLEAN : CallBroadcastAsync(1, rich, NoNote)
    \/ WriterSteps(2)
    \/ AsyncSteps(1)
    \/ Cancel(1)
    \/ \E t \in {1, 2} : RLockStep(t) \/ RUnlockStep(t) \/ Return(t)

SpecAsync == Init /\ [][NextAsync]_vars

----------------------------------------------------------------------------
\* One caller broadcasts synchronously (slot 1), another registers and
\* unregisters providers (slot 2), a third looks up and sends (slot 3).
NextSync ==
    \/ calls < MaxSyncCalls /\ \E rich \in BOOLEAN : CallBroadcast(1, rich, NoNote)
    \/ calls < MaxSyncCalls /\ \E p \in Providers : CallRegister(2, p, NoNote)
    \/ calls < MaxSyncCalls /\ \E n \in Names : CallUnregister(2, n, NoNote)
    \/ calls < MaxSyncCalls /\ \E n \in Names : CallGet(3, n, NoNote)
    \/ calls < MaxSyncCalls /\ \E n \in Names, rich \in BOOLEAN, msg \in Msgs : CallSend(3, n, rich, msg, NoNote)
    \/ WriterSteps(2)
    \/ BroadcastNext(1) \/ BroadcastEnd(1)
    \/ \E e \in SendErrs : BroadcastReturn(1, e)
    \/ GetBody(3) \/ SendCheck(3)
    \/ \E e \in SendErrs : SendReturn(3, e)
    \/ \E t \in {1, 3} : RLockStep(t) \/ RUnlockStep(t)
    \/ \E t \in {1, 2, 3} : Return(t)

SpecSync == Init /\ [][NextSync]_vars

\* One caller broadcasts synchronously (slot 1), the registry of the moment of
\* each call and of the moment it takes the read lock noted, while another
\* registers and unregisters providers (slot 2).
NextStart ==
    \/ calls < MaxCalls /\ \E rich \in BOOLEAN : CallBroadcastNoting(1, rich, NoNote)
    \/ calls < MaxCalls /\ \E p \in Providers : CallRegister(2, p, NoNote)
    \/ calls < MaxCalls /\ \E n \in Names : CallUnregister(2, n, NoNote)
    \/ WriterSteps(2)
    \/ RLockNoting(1) \/ RUnlockStep(1)
    \/ BroadcastNext(1) \/ BroadcastEnd(1)
    \/ \E e \in SendErrs : BroadcastReturn(1, e)
    \/ \E t \in {1, 2} : Return(t)

SpecStart == Init /\ [][NextStart]_vars

----------------------------------------------------------------------------
\* Every operation of the Manager at once: one caller broadcasts, synchronously
\* or not (slot 1), another registers and unregisters (slot 2), a third looks
\* up, lists and sends (slot 3).

\* the steps of the call of slot t that the manager and the providers take in
\* the caller's own thread, up to the return of the call
CallerSteps(t) ==
    \/ RLockStep(t) \/ RUnlockStep(t)
    \/ WriterSteps(t)
    \/ GetBody(t) \/ ListBody(t) \/ SendCheck(t)
    \/ \E e \in SendErrs : SendReturn(t, e)
    \/ BroadcastNext(t) \/ BroadcastEnd(t)
    \/ \E e \in SendErrs : BroadcastReturn(t, e)
    \/ SnapshotCopy(t) \/ SnapshotEnd(t) \/ MakeChan(t) \/ SpawnCloser(t)
    \/ \E n \in Names : SpawnUnit(t, n)

\* the goroutines of the call of slot t: the units and the one that closes
GoSteps(t) ==
    \/ \E n \in Names : UnitSend(t, n) \/ UnitDeliver(t, n) \/ UnitDone(t, n)
    \/ \E n \in Names, e \in SendErrs : UnitReturn(t, n, e)
    \/ CloserWake(t) \/ CloserClose(t)

\* the caller ranging over the channel
ReadSteps(t) == Recv(t) \/ RecvEnd(t)

NextLive ==
    \/ calls < MaxLiveCalls /\ \E rich \in BOOLEAN : CallBroadcast(1, rich, NoNote)
    \/ calls < MaxLiveCalls /\ \E rich \in BOOLEAN : CallBroadcastAsync(1, rich, NoNote)
    \/ calls < MaxLiveCalls /\ \E p \in Providers : CallRegister(2, p, NoNote)
    \/ calls < MaxLiveCalls /\ \E n \in Names : CallUnregister(2, n, NoNote)
    \/ calls < MaxLiveCalls /\ \E n \in Names : CallGet(3, n, NoNote)
    \/ calls < MaxLiveCalls /\ CallList(3, NoNote)
    \/ calls < MaxLiveCalls /\ \E n \in Names, rich \in BOOLEAN : CallSend(3, n, rich, BroadcastMsg, NoNote)
    \/ \E t \in {1, 2, 3} : CallerSteps(t)
    \/ GoSteps(1) \/ ReadSteps(1)
    \/ \E t \in {1, 2, 3} : Return(t)

\* Every thread that can run does run, and a provider send that has been
\* started returns: a step of a call that stays possible is taken.
SpecLive == Init /\ [][NextLive]_vars /\ \A t \in {1, 2, 3} : WF_vars(CallerSteps(t))

\* Contention on the lock: one caller broadcasts once, synchronously or not
\* (slot 1), another registers and unregisters, call after call (slot 2, up to
\* MaxWriterCalls calls), a third looks up, lists or sends once (slot 3, asking
\* for the first name).  The goroutines a BroadcastAsync leaves behind take no
\* step here: they never touch the lock, and the call has returned without
\* them.
NextContend ==
    \/ \E rich \in BOOLEAN : CallBroadcast(1, rich, NoNote)
    \/ \E rich \in BOOLEAN : CallBroadcastAsync(1, rich, NoNote)
    \/ /\ calls - Cardinality({t \in {1, 3} : pc[t] # "idle"}) < MaxWriterCalls
       /\ \E p \in {q \in Providers : q <= NumNames} : CallRegister(2, p, NoNote)
    \/ /\ calls - Cardinality({t \in {1, 3} : pc[t] # "idle"}) < MaxWriterCalls
       /\ \E n \in Names : CallUnregister(2, n, NoNote)
    \/ CallGet(3, 1, NoNote)
    \/ CallList(3, NoNote)
    \/ \E rich \in BOOLEAN : CallSend(3, 1, rich, BroadcastMsg, NoNote)
    \/ \E t \in {1, 2, 3} : CallerSteps(t)
    \/ Return(2)

\* As in SpecLive, every thread that can run does run, and a provider send
\* that has been started returns.
SpecContend == Init /\ [][NextContend]_vars /\ \A t \in {1, 2, 3} : WF_vars(CallerSteps(t))

----------------------------------------------------------------------------
\* The result stream of BroadcastAsync: one caller registers and unregisters
\* providers (slot 2), another broadcasts asynchronously and may read the
\* stream (slot 1).

NextStream ==
    \/ calls < MaxCalls /\ \E p \in Providers : CallRegister(2, p, NoNote)
    \/ calls < MaxCalls /\ \E n \in Names : CallUnregister(2, n, NoNote)
    \/ calls < MaxCalls /\ \E rich \in BOOLEAN : CallBroadcastAsync(1, rich, NoNote)
    \/ WriterSteps(2)
    \/ RLockStep(1) \/ RUnlockStep(1)
    \/ AsyncSteps(1)
    \/ \E t \in {1, 2} : Return(t)

\* Both callers and the goroutines run and the provider sends return; the
\* caller reads the stream to its end.
SpecStream ==
    /\ Init /\ [][NextStream]_vars
    /\ WF_vars(CallerSteps(1)) /\ WF_vars(WriterSteps(2))
    /\ WF_vars(GoSteps(1)) /\ WF_vars(ReadSteps(1))

\* Both callers and the goroutines run and the provider sends return; nothing
\* is assumed of the caller's reading.
SpecAbandon ==
    /\ Init /\ [][NextStream]_vars
    /\ WF_vars(CallerSteps(1)) /\ WF_vars(WriterSteps(2))
    /\ WF_vars(GoSteps(1))

----------------------------------------------------------------------------
\* Calls on record: two callers register and unregister (slots 2 and 3), one
\* sends or broadcasts (slot 1); each call notes the calls that had returned
\* when it began, and no slot is used again.
NextAfter ==
    \/ \E n \in Names, rich \in BOOLEAN : CallSend(1, n, rich, BroadcastMsg, ReturnedCalls)
    \/ \E rich \in BOOLEAN : CallBroadcast(1, rich, ReturnedCalls)
    \/ \E rich \in BOOLEAN : CallBroadcastAsync(1, rich, ReturnedCalls)
    \/ \E t \in {2, 3} :
          \/ \E p \in Providers : CallRegister(t, p, ReturnedCalls)
          \/ \E n \in Names : CallUnregister(t, n, ReturnedCalls)
          \/ WriterSteps(t)
    \/ RLockStep(1) \/ RUnlockStep(1)
    \/ GetBody(1) \/ SendCheck(1)
    \/ \E e \in SendErrs : SendReturn(1, e)
    \/ BroadcastNext(1) \/ BroadcastEnd(1)
    \/ \E e \in SendErrs : BroadcastReturn(1, e)
    \/ AsyncSteps(1)

SpecAfter == Init /\ [][NextAfter]_vars

----------------------------------------------------------------------------
\* Two callers broadcast asynchronously, once each: one reads its stream
\* (slot 1), the other never does (slot 2); a third registers providers, one
\* for each name (slot 3).
NextPair ==
    \/ calls < MaxCalls /\ \E p \in {q \in Providers : q <= NumNames} : CallRegister(3, p, NoNote)
    \/ calls < MaxCalls /\ \E t \in {1, 2} : CallBroadcastAsync(t, FALSE, NoNote)
    \/ WLock(3) \/ WAcquire(3) \/ RegisterBody(3) \/ WUnlock(3)
    \/ \E t \in {1, 2} :
          \/ RLockStep(t) \/ RUnlockStep(t)
          \/ SnapshotCopy(t) \/ SnapshotEnd(t) \/ MakeChan(t) \/ SpawnCloser(t)
          \/ \E n \in Names : SpawnUnit(t, n)
          \/ GoSteps(t)
    \/ ReadSteps(1)
    \/ Return(3)

SpecPair == Init /\ [][NextPair]_vars

----------------------------------------------------------------------------
\* TelegramNotifier

PriorityLow == "low"

\* the values the fields of a TelegramConfig and of a Message are drawn from
ChatIDs == {"", "42", "43"}
TelegramConfigs ==
    [BotToken : {"", "token"}, ChatID : ChatIDs, ParseMode : {"", "Markdown", "HTML"}]
Messages ==
    [Text : Msgs \cup {""}, Title : {"", "Build"},
     Priority : {"", "high", "normal", PriorityLow}, Channel : ChatIDs]

\* &NotificationError{Provider: "telegram", Message: m}
TelegramErr(m) == [kind |-> "provider", prov |-> "telegram", msg |-> m]

\* what sendRequest can return: nil, or the error of one of its seven failing
\* branches (the status, the body and the description are the server's)
TelegramOutcomes ==
    {NoErr,
     TelegramErr("failed to marshal request"),
     TelegramErr("failed to create request"),
     TelegramErr("failed to send request"),
     TelegramErr("failed to read response"),
     TelegramErr("API request failed with status 401: Unauthorized"),
     TelegramErr("failed to parse response"),
     TelegramErr("API returned error: Bad Request")}

\* parseMode := config.ParseMode; if parseMode == "" { parseMode = "Markdown" }
ParseModeOf(config) == IF config.ParseMode = "" THEN "Markdown" ELSE config.ParseMode

\* the notifier NewTelegramNotifier returns (nil with an error when the token
\* or the chat ID is missing)
NewTelegramResult(config) ==
    IF config.BotToken = "" THEN [t |-> NilTelegram, err |-> TelegramErr("bot token is required")]
    ELSE IF config.ChatID = "" THEN [t |-> NilTelegram, err |-> TelegramErr("chat ID is required")]
    ELSE [t |-> [botToken |-> config.BotToken, chatID |-> config.ChatID,
                 parseMode |-> ParseModeOf(config)],
          err |-> NoErr]

NewTelegramNotifier(config) ==
    /\ ~tg.busy
    /\ tg' = [config |-> config, t |-> NewTelegramResult(config).t, msg |-> NoMessage,
              req |-> NoRequest, busy |-> FALSE, err |-> NewTelegramResult(config).err]
    /\ UNCHANGED <<managerVars, sl>>

\* chatID := msg.Channel; if chatID == "" { chatID = t.chatID }
TelegramChatID(t, msg) == IF msg.Channel = "" THEN t.chatID ELSE msg.Channel

\* messageText: fmt.Sprintf("*%s*\n\n%s", msg.Title, msg.Text) when there is a title
TelegramText(msg) ==
    IF msg.Title # "" THEN "*" \o msg.Title \o "*\n\n" \o msg.Text ELSE msg.Text

\* the payload of the sendMessage request
TelegramPayload(t, msg) ==
    IF msg.Priority = PriorityLow
    THEN [method |-> "sendMessage", chat_id |-> TelegramChatID(t, msg), text |-> TelegramText(msg),
          parse_mode |-> t.parseMode, disable_notification |-> TRUE]
    ELSE [method |-> "sendMessage", chat_id |-> TelegramChatID(t, msg), text |-> TelegramText(msg),
          parse_mode |-> t.parseMode]

\* SendWithOptions up to the call of sendRequest: an empty Text is refused
\* without a request
TelegramSendWithOptions(msg) ==
    /\ tg.t # NilTelegram /\ ~tg.busy
    /\ tg' = IF msg.Text = ""
             THEN [tg EXCEPT !.msg = msg, !.req = NoRequest,
                             !.err = TelegramErr("message text is required")]
             ELSE [tg EXCEPT !.msg = msg, !.req = TelegramPayload(tg.t, msg),
                             !.busy = TRUE, !.err = NoErr]
    /\ UNCHANGED <<managerVars, sl>>

\* Send: SendWithOptions(ctx, &Message{Text: message, Channel: t.chatID})
TelegramSend(text) ==
    TelegramSendWithOptions([NoMessage EXCEPT !.Text = text, !.Channel = tg.t.chatID])

\* SendPhoto: the chat ID given or else the notifier's, the photo and the
\* caption, sent as they are with method sendPhoto
TelegramSendPhoto(chatID, photoURL, caption) ==
    /\ tg.t # NilTelegram /\ ~tg.busy
    /\ tg' = [tg EXCEPT !.msg = NoMessage,
                        !.req = [method |-> "sendPhoto",
                                 chat_id |-> IF chatID = "" THEN tg.t.chatID ELSE chatID,
                                 photo |-> photoURL, caption |-> caption],
                        !.busy = TRUE, !.err = NoErr]
    /\ UNCHANGED <<managerVars, sl>>

\* sendRequest returns, and SendWithOptions or SendPhoto with it
TelegramSendRequest(e) ==
    /\ tg.busy
    /\ tg' = [tg EXCEPT !.busy = FALSE, !.err = e]
    /\ UNCHANGED <<managerVars, sl>>

----------------------------------------------------------------------------
\* SlackNotifier

\* the values the fields of a SlackConfig and of a Message are drawn from
SlackConfigs ==
    [Token : {"", "xoxb"}, WebhookURL : {"", "https://hook"}, DefaultChannel : {"", "#general"},
     Username : {"", "bot"}, IconEmoji : {"", ":robot_face:"}]
SlackMessages ==
    [Text : {"", "hi"}, Title : {"", "Build"}, Priority : {"", PriorityLow},
     Channel : {"", "#ops", "#general"},
     Attachments : {<<>>, <<[Title |-> "a1", Color |-> "red"]>>,
                    <<[Title |-> "a1", Color |-> "red"], [Title |-> "a2", Color |-> ""]>>},
     Metadata : {"", "k=v"}]

\* &NotificationError{Provider: "slack", Message: m}
SlackErr(m) == [kind |-> "provider", prov |-> "slack", msg |-> m]

\* what NewSlackNotifier returns: nil with an error when neither a token nor a
\* webhook URL is given; the client is nil when there is no token
NewSlackResult(config) ==
    IF config.Token = "" /\ config.WebhookURL = ""
    THEN [made |-> FALSE, s |-> NoSlack.s,
          err |-> SlackErr("either token or webhook URL is required")]
    ELSE [made |-> TRUE,
          s |-> [client |-> config.Token, defaultChannel |-> config.DefaultChannel,
                 username |-> config.Username, iconEmoji |-> config.IconEmoji],
          err |-> NoErr]

NewSlackNotifier(config) ==
    /\ ~sl.busy
    /\ sl' = [NoSlack EXCEPT !.config = config, !.made = NewSlackResult(config).made,
                             !.s = NewSlackResult(config).s, !.err = NewSlackResult(config).err]
    /\ UNCHANGED <<managerVars, tg>>

\* channel := msg.Channel; if channel == "" { channel = s.defaultChannel }
SlackChannel(s, msg) == IF msg.Channel = "" THEN s.defaultChannel ELSE msg.Channel

\* (mutant) the channel is not checked
SlackRefusalAnyChannel(s, msg) ==
    IF s.client = "" THEN SlackErr("slack client not initialized (webhook support not yet implemented for SendWithOptions)")
    ELSE IF msg.Text = "" THEN SlackErr("message text is required")
    ELSE NoErr

\* (mutant) the message text is not checked
SlackRefusalAnyText(s, msg) ==
    IF s.client = "" THEN SlackErr("slack client not initialized (webhook support not yet implemented for SendWithOptions)")
    ELSE IF SlackChannel(s, msg) = "" THEN SlackErr("channel is required")
    ELSE NoErr

\* the error SendWithOptions returns before it builds the options: no client,
\* no text, no channel; nil when it goes on to call the API
SlackRefusal(s, msg) ==
    IF s.client = "" THEN SlackErr("slack client not initialized (webhook support not yet implemented for SendWithOptions)")
    ELSE IF msg.Text = "" THEN SlackErr("message text is required")
    ELSE IF SlackChannel(s, msg) = "" THEN SlackErr("channel is required")
    ELSE NoErr

\* convertAttachments: a slack.Attachment for each attachment, in order
ConvertAttachments(attachments) ==
    [i \in 1..Len(attachments) |->
        [Title |-> attachments[i].Title, Color |-> attachments[i].Color, slack |-> TRUE]]

\* (mutant) the text option stays in the list when blocks are used
SlackOptionsKeepText(s, msg) ==
    LET o1 == <<[opt |-> "Text", text |-> msg.Text]>>
        o2 == IF s.username # "" THEN Append(o1, [opt |-> "Username", username |-> s.username])
              ELSE o1
        o3 == IF s.iconEmoji # "" THEN Append(o2, [opt |-> "IconEmoji", emoji |-> s.iconEmoji])
              ELSE o2
        o4 == IF Len(msg.Attachments) > 0
              THEN Append(o3, [opt |-> "Attachments",
                               attachments |-> ConvertAttachments(msg.Attachments)])
              ELSE o3
    IN  IF msg.Title # ""
        THEN Append(o4, [opt |-> "Blocks", header |-> msg.Title, section |-> msg.Text])
        ELSE o4

\* the options SendWithOptions passes to PostMessageContext: the text, then
\* the username, the icon emoji and the attachments where there are any, then
\* (with a title) the blocks, after which options = options[1:]
SlackOptions(s, msg) ==
    LET o1 == <<[opt |-> "Text", text |-> msg.Text]>>
        o2 == IF s.username # "" THEN Append(o1, [opt |-> "Username", username |-> s.username])
              ELSE o1
        o3 == IF s.iconEmoji # "" THEN Append(o2, [opt |-> "IconEmoji", emoji |-> s.iconEmoji])
              ELSE o2
        o4 == IF Len(msg.Attachments) > 0
              THEN Append(o3, [opt |-> "Attachments",
                               attachments |-> ConvertAttachments(msg.Attachments)])
              ELSE o3
    IN  IF msg.Title # ""
        THEN Tail(Append(o4, [opt |-> "Blocks", header |-> msg.Title, section |-> msg.Text]))
        ELSE o4

\* SendWithOptions up to the call of PostMessageContext
SlackSendWithOptions(msg) ==
    /\ sl.made /\ ~sl.busy
    /\ sl' = IF SlackRefusal(sl.s, msg) # NoErr
             THEN [sl EXCEPT !.msg = msg, !.post = NoSlack.post, !.posted = FALSE,
                             !.err = SlackRefusal(sl.s, msg)]
             ELSE [sl EXCEPT !.msg = msg,
                             !.post = [call |-> "SendWithOptions",
                                       channel |-> SlackChannel(sl.s, msg),
                                       options |-> SlackOptions(sl.s, msg)],
                             !.posted = TRUE, !.busy = TRUE, !.err = NoErr]
    /\ UNCHANGED <<managerVars, tg>>

\* Send: SendWithOptions(ctx, &Message{Text: message, Channel: s.defaultChannel})
SlackSend(text) ==
    SlackSendWithOptions([NoSlack.msg EXCEPT !.Text = text, !.Channel = sl.s.defaultChannel])

\* SendRichMessage and SendFile up to the call of the API (PostMessageContext
\* with the blocks, UploadFileContext with the file): no client is refused, the
\* channel is the one given or else the default one, and is not checked
SlackSendRichMessage(channel, blocks) ==
    /\ sl.made /\ ~sl.busy
    /\ sl' = IF sl.s.client = ""
             THEN [sl EXCEPT !.msg = NoSlack.msg, !.post = NoSlack.post, !.posted = FALSE,
                             !.err = SlackErr("slack client not initialized")]
             ELSE [sl EXCEPT !.msg = NoSlack.msg,
                             !.post = [call |-> "SendRichMessage",
                                       channel |-> IF channel = "" THEN sl.s.defaultChannel
                                                   ELSE channel,
                                       options |-> <<[opt |-> "Blocks", blocks |-> blocks]>>],
                             !.posted = TRUE, !.busy = TRUE, !.err = NoErr]
    /\ UNCHANGED <<managerVars, tg>>

SlackSendFile(channel, filePath) ==
    /\ sl.made /\ ~sl.busy
    /\ sl' = IF sl.s.client = ""
             THEN [sl EXCEPT !.msg = NoSlack.msg, !.post = NoSlack.post, !.posted = FALSE,
                             !.err = SlackErr("slack client not initialized")]
             ELSE [sl EXCEPT !.msg = NoSlack.msg,
                             !.post = [call |-> "SendFile",
                                       channel |-> IF channel = "" THEN sl.s.defaultChannel
                                                   ELSE channel,
                                       options |-> <<[opt |-> "File", file |-> filePath]>>],
                             !.posted = TRUE, !.busy = TRUE, !.err = NoErr]
    /\ UNCHANGED <<managerVars, tg>>

\* the call of the API returns, and the method with it: nil, or the error of
\* the API wrapped in the method's own message
SlackPostMessage(ok) ==
    /\ sl.busy
    /\ sl' = [sl EXCEPT !.busy = FALSE,
                        !.err = IF ok THEN NoErr
                                ELSE IF sl.post.call = "SendWithOptions"
                                     THEN SlackErr("failed to send message")
                                ELSE IF sl.post.call = "SendRichMessage"
                                     THEN SlackErr("failed to send rich message")
                                ELSE SlackErr("failed to upload file: upload error")]
    /\ UNCHANGED <<managerVars, tg>>

\* A program builds notifiers of one of the two built-in providers and sends
\* with them (the providers share no state).
NextBuiltin ==
    \/ sl = NoSlack /\ \E config \in TelegramConfigs : NewTelegramNotifier(config)
    \/ sl = NoSlack /\ \E text \in Msgs \cup {""} : TelegramSend(text)
    \/ sl = NoSlack /\ \E msg \in Messages : TelegramSendWithOptions(msg)
    \/ sl = NoSlack /\ \E chatID \in ChatIDs, caption \in {"", "cap"} :
          TelegramSendPhoto(chatID, "http://x/p.png", caption)
    \/ sl = NoSlack /\ \E e \in TelegramOutcomes : TelegramSendRequest(e)
    \/ tg = NoTelegram /\ \E config \in SlackConfigs : NewSlackNotifier(config)
    \/ tg = NoTelegram /\ \E text \in {"", "hi"} : SlackSend(text)
    \/ tg = NoTelegram /\ \E msg \in SlackMessages : SlackSendWithOptions(msg)
    \/ tg = NoTelegram /\ \E channel \in {"", "#ops"} : SlackSendRichMessage(channel, "section")
    \/ tg = NoTelegram /\ \E channel \in {"", "#ops"} : SlackSendFile(channel, "report.txt")
    \/ tg = NoTelegram /\ \E ok \in BOOLEAN : SlackPostMessage(ok)

SpecBuiltin == Init /\ [][NextBuiltin]_vars

----------------------------------------------------------------------------
\* One caller registers and unregisters (slot 1), the nil Notifier and a
\* provider without a name among its arguments; another looks up and lists
\* (slot 2).
NextArgs ==
    \/ calls < MaxCalls /\ \E p \in AnyProviders : CallRegister(1, p, NoNote)
    \/ calls < MaxCalls /\ \E n \in AnyNames : CallUnregister(1, n, NoNote)
    \/ calls < MaxCalls /\ \E n \in AnyNames : CallGet(2, n, NoNote)
    \/ calls < MaxCalls /\ CallList(2, NoNote)
    \/ RegisterNil(1)
    \/ WriterSteps(1)
    \/ RLockStep(2) \/ RUnlockStep(2) \/ GetBody(2) \/ ListBody(2)
    \/ \E t \in {1, 2} : Return(t)

SpecArgs == Init /\ [][NextArgs]_vars

\* idle slots of one role are interchangeable: the lowest one takes the next call
LowestIdle(t) == \A s \in Slots : pc[s] = "idle" => t <= s

\* Concurrent callers work on the registry alone: every caller may register
\* or unregister, and caller NumCallers may instead look up or list.  Each
\* makes one call and keeps its result, and each call notes the calls that
\* returned before it began.
NextRegistry ==
    \/ \E t \in 1..NumCallers :
          \/ LowestIdle(t) /\ \E p \in Providers : CallRegister(t, p, ReturnedCalls)
          \/ LowestIdle(t) /\ \E n \in Names : CallUnregister(t, n, ReturnedCalls)
          \/ WriterSteps(t)
    \/ \E n \in Names : CallGet(NumCallers, n, ReturnedCalls)
    \/ CallList(NumCallers, ReturnedCalls)
    \/ RLockStep(NumCallers) \/ RUnlockStep(NumCallers)
    \/ GetBody(NumCallers) \/ ListBody(NumCallers)

SpecRegistry == Init /\ [][NextRegistry]_vars

----------------------------------------------------------------------------
\* Properties of the concurrent broadcast (SpecAsync)

\* everything the call has put on its result stream so far, in order
Delivered(t) == recvd[t] \o ch[t]

\* positions of the results that name provider n
ResultsFor(t, n) == {i \in 1..Len(Delivered(t)) : Delivered(t)[i].Provider = n}

\* C1: a BroadcastAsync call puts exactly one result per snapshotted name on
\* its stream before the stream closes: never a result for a name outside the
\* snapshot, never two for one name, and at closure N results, one per name;
\* the caller that drains the stream has received all N.
C1_ExactlyNResults ==
    \A t \in Slots :
        /\ \A n \in Names :
              Cardinality(ResultsFor(t, n)) <= (IF n \in DOMAIN snap[t] THEN 1 ELSE 0)
        /\ closed[t] =>
              /\ Len(Delivered(t)) = Cardinality(DOMAIN snap[t])
              /\ \A n \in DOMAIN snap[t] : Cardinality(ResultsFor(t, n)) = 1
        /\ (pc[t] = "done" /\ op[t].name = "BroadcastAsync") =>
              /\ Len(ret[t].res) = Cardinality(DOMAIN snap[t])
              /\ {ret[t].res[i].Provider : i \in 1..Len(ret[t].res)} = DOMAIN snap[t]

C1_Witness ==
    \E t \in Slots :
        /\ pc[t] = "done" /\ op[t].name = "BroadcastAsync"
        /\ Cardinality(DOMAIN snap[t]) >= 2
        /\ Len(ret[t].res) = Cardinality(DOMAIN snap[t])

\* C2: the stream is closed (and wg.Wait() has returned) only when every
\* unit of the snapshot has put its result on the stream; no goroutine ever
\* sends on the closed channel (no panic).
C2_ClosedAfterAllDelivered ==
    /\ ~panicked
    /\ \A t \in Slots :
          (closed[t] \/ closer[t] \in {"woken", "done"}) =>
              \A n \in DOMAIN snap[t] :
                  /\ units[t][n].st \in {"delivered", "done"}
                  /\ ResultsFor(t, n) # {}

C2_Witness ==
    \E t \in Slots :
        /\ closed[t] /\ cancelled[t]
        /\ Cardinality(DOMAIN snap[t]) >= 2
        /\ \A n \in DOMAIN snap[t] : units[t][n].st = "done"
        /\ ch[t] # <<>>

\* the snapshot of a BroadcastAsync call has been taken
SnapshotTaken(t) ==
    /\ op[t].name = "BroadcastAsync"
    /\ pc[t] \in {"r_unlock", "ba_make", "ba_spawn", "ba_recv", "done"}

\* C7: when the copy loop ends the snapshot is the registry of that moment;
\* from then on it never changes, whatever Register and Unregister do; every
\* unit spawned and every result delivered belongs to a name of the snapshot
\* and carries the snapshot's provider; at closure every name of the
\* snapshot has been dispatched and has its result.
C7_SnapshotFixesDispatch ==
    [][\A t \in Slots :
          /\ (pc[t] = "ba_copy" /\ pc'[t] = "r_unlock") => snap'[t] = notifiers'
          /\ (SnapshotTaken(t) /\ SnapshotTaken(t)') => snap'[t] = snap[t]
          /\ SnapshotTaken(t)' =>
                /\ \A n \in Names :
                      units'[t][n].st # "none" =>
                          n \in DOMAIN snap'[t] /\ units'[t][n].nt = snap'[t][n]
                /\ \A n \in Names : ResultsFor(t, n)' # {} => n \in DOMAIN snap'[t]
                /\ closed'[t] =>
                      \A n \in DOMAIN snap'[t] :
                          units'[t][n].st # "none" /\ ResultsFor(t, n)' # {}
      ]_vars

C7_Witness ==
    \E t \in Slots :
        /\ closed[t]
        /\ DOMAIN snap[t] # {}
        /\ DOMAIN snap[t] # DOMAIN notifiers
        /\ \A n \in DOMAIN snap[t] : ResultsFor(t, n) # {}

\* C8: when a provider's send returned the context's error (it waited for
\* the cancellation), the closed stream holds exactly N results: that
\* provider's with Success = FALSE and the error, and every other provider's
\* with its own outcome.
C8_CancelledProviderReported ==
    \A t \in Slots : \A n \in DOMAIN snap[t] :
        (closed[t] /\ units[t][n].err = CtxErr) =>
            /\ Len(Delivered(t)) = Cardinality(DOMAIN snap[t])
            /\ \E i \in ResultsFor(t, n) :
                  ~Delivered(t)[i].Success /\ Delivered(t)[i].Error = CtxErr
            /\ \A m \in (DOMAIN snap[t]) \ {n} :
                  \E i \in ResultsFor(t, m) :
                      Delivered(t)[i].Success = (units[t][m].err = NoErr)

C8_Witness ==
    \E t \in Slots : \E n, m \in DOMAIN snap[t] :
        /\ closed[t]
        /\ units[t][n].err = CtxErr
        /\ units[t][m].err = NoErr
        /\ Len(Delivered(t)) = Cardinality(DOMAIN snap[t])

\* C9: cancellation never suppresses a dispatch: a unit calls its provider
\* at most once and always with the caller's own context, it has a result
\* only after having called the provider, and when the context is cancelled
\* (at any time) the closed stream still has one result per snapshotted
\* provider, each of them invoked exactly once.
C9_CancelNeverSuppresses ==
    \A t \in Slots : \A n \in Names :
        /\ units[t][n].sends <= 1
        /\ units[t][n].st # "none" => units[t][n].ctx = op[t].ctx
        /\ units[t][n].st \in {"returned", "delivered", "done"} => units[t][n].sends = 1
        /\ (closed[t] /\ cancelled[op[t].ctx] /\ n \in DOMAIN snap[t]) =>
              units[t][n].sends = 1 /\ Cardinality(ResultsFor(t, n)) = 1

C9_Witness ==
    \E t \in Slots :
        /\ closed[t] /\ op[t].name = "BroadcastAsync" /\ cancelled[op[t].ctx]
        /\ Cardinality(DOMAIN snap[t]) >= 2
        /\ \A n \in DOMAIN snap[t] : units[t][n].sends = 1 /\ units[t][n].err # CtxErr

----------------------------------------------------------------------------
\* Properties of the synchronous broadcast and of the registry lock (SpecSync)

\* C3: when Broadcast's loop is over (the read lock still held, so the
\* registry is the one the call ran on) every registered provider's send has
\* been invoked exactly once, no other provider's, and the errors returned
\* are as many as the sends that failed.
C3_BroadcastAttemptsAll ==
    \A t \in Slots :
        /\ \A n \in Names : sent[t][n] <= 1
        /\ (op[t].name = "Broadcast" /\ pc[t] = "r_unlock") =>
              /\ \A n \in Names : sent[t][n] = (IF n \in DOMAIN notifiers THEN 1 ELSE 0)
              /\ Len(ret[t].errs) = Cardinality(failed[t])

C3_Witness ==
    \E t \in Slots :
        /\ op[t].name = "Broadcast" /\ pc[t] = "r_unlock"
        /\ Cardinality(DOMAIN notifiers) >= 2
        /\ Cardinality(failed[t]) = 1
        /\ visited[t][1] \in failed[t]
        /\ \A n \in DOMAIN notifiers : sent[t][n] = 1
        /\ Len(ret[t].errs) = 1

\* the caller of slot t is inside a provider's Send / SendWithOptions
InSend(t) == pc[t] \in {"b_send", "send_call"}

\* slot t holds the registry lock, for reading or for writing
HoldsLock(t) == t \in mu.readers \/ (mu.writer = {t} /\ mu.held)

\* C4 (as claimed): no thread holds the registry lock while a provider send
\* it made is in progress.
C4_NoLockAcrossSend == \A t \in Slots : InSend(t) => ~HoldsLock(t)

\* slot t is inside m.mu.Lock() and cannot get the lock now
WriterBlocked(t) ==
    \/ pc[t] = "w_lock" /\ ~CanLock(mu)
    \/ pc[t] = "w_wait" /\ ~CanLockAcquire(mu, t)

\* C5 (as claimed): a Register or Unregister that waits for the lock is never
\* waiting for a provider send: no holder of the lock is inside a send.
C5_WriterNeverWaitsForSend ==
    \A t \in Slots : WriterBlocked(t) => \A r \in Slots : HoldsLock(r) => ~InSend(r)

\* C6 (as claimed): a Get that cannot take the read lock now is never waiting,
\* directly or through a queued writer, for a provider send.
C6_GetNeverWaitsForSend ==
    \A t \in Slots :
        (op[t].name = "Get" /\ pc[t] = "r_lock" /\ ~CanRLock(mu)) =>
            \A r \in Slots : HoldsLock(r) => ~InSend(r)

----------------------------------------------------------------------------
\* Properties of the registry (SpecRegistry)

\* C10: Register's body, run for a provider whose name is present, leaves
\* the registry as it was (same size, same provider under the name) and
\* returns the duplicate error.
C10_DuplicateRejected ==
    [][\A t \in Slots :
          (pc[t] = "reg_body" /\ pc'[t] = "w_unlock"
              /\ NameOf(op[t].arg) \in DOMAIN notifiers) =>
                  /\ notifiers' = notifiers
                  /\ ret'[t] = [kind |-> "error", err |-> DuplicateErr(NameOf(op[t].arg))]
      ]_vars

C10_Witness ==
    \E t \in Slots :
        /\ op[t].name = "Register" /\ pc[t] = "w_unlock"
        /\ ret[t].err = DuplicateErr(NameOf(op[t].arg))
        /\ Cardinality(DOMAIN notifiers) = 1
        /\ notifiers[NameOf(op[t].arg)] # op[t].arg

\* every call made so far is still on record: no caller has let go of a result
NoCallForgotten == calls = Cardinality({s \in Slots : pc[s] # "idle"})

\* call s is a Register of a provider named n that has returned nil
RegisterOk(s, n) ==
    /\ op[s].name = "Register" /\ NameOf(op[s].arg) = n
    /\ pc[s] = "done" /\ ret[s] = [kind |-> "error", err |-> NoErr]

\* call s is an Unregister of name n
IsUnregister(s, n) == op[s].name = "Unregister" /\ op[s].arg = n

\* call s is a Register or an Unregister
IsWriter(s) == op[s].name \in {"Register", "Unregister"}

\* call g has read the registry: its result is fixed
HasRead(g) == pc[g] \in {"r_unlock", "done"}

\* the Register calls on record
RegisterCalls == {s \in Slots : op[s].name = "Register"}

\* C11: on a new manager, when the only mutations are Register calls for
\* pairwise distinct names (issued concurrently, interleaved in any way),
\* each of them returns nil, each name is in the registry with its provider
\* once its call has returned, and a List that begins after some of them have
\* returned contains their names, all of them if all have returned.
C11_NoLostRegistration ==
    ( /\ NoCallForgotten
      /\ \A s \in Slots : op[s].name # "Unregister"
      /\ \A s, r \in RegisterCalls : s # r => NameOf(op[s].arg) # NameOf(op[r].arg) )
    =>
      /\ \A s \in RegisterCalls :
            /\ pc[s] \in {"w_unlock", "done"} => ret[s] = [kind |-> "error", err |-> NoErr]
            /\ pc[s] = "done" =>
                  /\ NameOf(op[s].arg) \in DOMAIN notifiers
                  /\ notifiers[NameOf(op[s].arg)] = op[s].arg
      /\ \A g \in Slots :
            (op[g].name = "List" /\ HasRead(g)) =>
                /\ \A s \in RegisterCalls \cap op[g].after : NameOf(op[s].arg) \in Range(ret[g].names)
                /\ Range(ret[g].names) \subseteq {NameOf(op[s].arg) : s \in RegisterCalls}

C11_Witness ==
    \E s, r, g \in Slots :
        /\ NoCallForgotten
        /\ RegisterOk(s, NameOf(op[s].arg)) /\ RegisterOk(r, NameOf(op[r].arg))
        /\ NameOf(op[s].arg) # NameOf(op[r].arg)
        /\ s \notin op[r].after /\ r \notin op[s].after
        /\ op[g].name = "List" /\ pc[g] = "done" /\ {s, r} \subseteq op[g].after
        /\ Range(ret[g].names) = {NameOf(op[s].arg), NameOf(op[r].arg)}

\* C12: a Get(n) that begins after a Register of name n has returned nil,
\* every Unregister(n) on record having returned before that Register began,
\* reports the registered provider as present; a Get(n) that begins after an
\* Unregister(n) has returned, every Register of name n on record having
\* returned before that Unregister began, reports absent.  Calls on other
\* names may run at any time.
C12_GetSeesLastWrite ==
    \A g \in Slots :
        (NoCallForgotten /\ op[g].name = "Get" /\ HasRead(g)) =>
            /\ \A s \in op[g].after :
                  ( /\ RegisterOk(s, op[g].arg)
                    /\ \A u \in Slots : IsUnregister(u, op[g].arg) => u \in op[s].after )
                  => ret[g] = [kind |-> "lookup", nt |-> op[s].arg, exists |-> TRUE]
            /\ \A u \in op[g].after :
                  ( /\ IsUnregister(u, op[g].arg)
                    /\ \A r \in RegisterCalls :
                          NameOf(op[r].arg) = op[g].arg => r \in op[u].after )
                  => ret[g] = [kind |-> "lookup", nt |-> 0, exists |-> FALSE]

C12_Witness ==
    \E g, s, w \in Slots :
        /\ NoCallForgotten
        /\ op[g].name = "Get" /\ pc[g] = "done" /\ ret[g].exists
        /\ s \in op[g].after /\ RegisterOk(s, op[g].arg) /\ ret[g].nt = op[s].arg
        /\ IsWriter(w) /\ w \notin op[g].after /\ pc[w] = "done"
        /\ (IF op[w].name = "Register" THEN NameOf(op[w].arg) ELSE op[w].arg) # op[g].arg

\* call t is at the statement that writes the registry map
Mutating(t) == pc[t] \in {"reg_body", "unreg_body"}

\* call t is at a statement that reads the registry map: the lookup of Get,
\* the range of List, the range of Broadcast (up to its end, sends included),
\* the copy loop of BroadcastAsync
Reading(t) == pc[t] \in {"get_body", "list_body", "b_loop", "b_send", "b_end", "ba_copy"}

\* C13: while a Register or an Unregister is at its write of the registry
\* map, no other call is at a write or at a read of the map.
C13_WriterExcludesAll ==
    \A t \in Slots :
        Mutating(t) => \A s \in Slots \ {t} : ~Mutating(s) /\ ~Reading(s)

C13_Witness ==
    /\ pc[2] = "unreg_body" /\ op[2].arg \in DOMAIN notifiers
    /\ pc[1] = "r_lock" /\ op[1].name \in {"Broadcast", "BroadcastAsync"}
    /\ pc[3] = "r_lock" /\ op[3].name \in {"Get", "List"}

\* the writer calls on record other than s and u
OtherWriters(s, u) == {w \in Slots \ {s, u} : IsWriter(w)}

\* C14: when Register(p) has returned nil, Unregister of p's name began
\* after that and has run, and every other mutation on record had returned
\* before the Register began, the registry is what those other mutations made
\* it: p's name is absent, every entry the others left is still there with
\* its provider and nothing else has appeared (on a new manager it is
\* empty); a Get that begins after the Unregister returned reports p's name
\* absent and every other name as the others left it, and a List holds
\* exactly the names the others left (none on a new manager).
C14_RegisterThenUnregister ==
    \A s, u \in Slots :
        ( /\ NoCallForgotten
          /\ RegisterOk(s, NameOf(op[s].arg))
          /\ IsUnregister(u, NameOf(op[s].arg)) /\ pc[u] \in {"w_unlock", "done"}
          /\ s \in op[u].after
          /\ \A w \in OtherWriters(s, u) : w \in op[s].after )
        =>
          /\ NameOf(op[s].arg) \notin DOMAIN notifiers
          /\ \A m \in DOMAIN notifiers :
                \E w \in OtherWriters(s, u) : RegisterOk(w, m) /\ notifiers[m] = op[w].arg
          /\ \A w \in OtherWriters(s, u) : \A m \in Names :
                (RegisterOk(w, m) /\ \A x \in OtherWriters(s, u) : ~IsUnregister(x, m)) =>
                    m \in DOMAIN notifiers /\ notifiers[m] = op[w].arg
          /\ \A g \in Slots :
                (u \in op[g].after /\ HasRead(g)) =>
                    /\ (op[g].name = "Get" /\ op[g].arg = NameOf(op[s].arg)) => ~ret[g].exists
                    /\ (op[g].name = "Get" /\ op[g].arg # NameOf(op[s].arg)) =>
                          ret[g].exists = (op[g].arg \in DOMAIN notifiers)
                    /\ op[g].name = "List" =>
                          /\ Range(ret[g].names) = DOMAIN notifiers
                          /\ OtherWriters(s, u) = {} => Range(ret[g].names) = {}

\* an earlier Register of another name is on record, and its entry is what
\* the registry holds once the pair has run
C14_Witness ==
    \E w, s, u \in Slots :
        /\ NoCallForgotten
        /\ RegisterOk(w, NameOf(op[w].arg)) /\ w \in op[s].after
        /\ NameOf(op[w].arg) # NameOf(op[s].arg)
        /\ RegisterOk(s, NameOf(op[s].arg))
        /\ IsUnregister(u, NameOf(op[s].arg)) /\ pc[u] = "done" /\ s \in op[u].after
        /\ DOMAIN notifiers = {NameOf(op[w].arg)}
        /\ notifiers[NameOf(op[w].arg)] = op[w].arg

\* C15: Unregister's body, run for a name that is not in the registry
\* (never registered, or removed before), reports nothing and leaves the
\* registry as it was: the same names for List, the same answer of Get for
\* every name; so for any number of such calls.
C15_UnregisterAbsent ==
    [][\A t \in Slots :
          (pc[t] = "unreg_body" /\ pc'[t] = "w_unlock" /\ op[t].arg \notin DOMAIN notifiers) =>
              /\ ret'[t] = [kind |-> "void"]
              /\ DOMAIN notifiers' = DOMAIN notifiers
              /\ \A n \in Names : Lookup(notifiers', n) = Lookup(notifiers, n)
      ]_vars

C15_Witness ==
    \E s, u, g \in Slots :
        /\ NoCallForgotten
        /\ RegisterOk(s, NameOf(op[s].arg))
        /\ op[u].name = "Unregister" /\ op[u].arg # NameOf(op[s].arg)
        /\ pc[u] = "done" /\ ret[u] = [kind |-> "void"] /\ s \in op[u].after
        /\ op[g].name = "List" /\ pc[g] = "done" /\ u \in op[g].after
        /\ Range(ret[g].names) = {NameOf(op[s].arg)}

----------------------------------------------------------------------------
\* Properties of the targeted send (SpecSync)

\* no provider send has been started by call t
NothingSent(t) == \A m \in Names : sent[t][m] = 0

\* C16: when the lookup of a Send / SendWithOptions is made for a name that
\* is not in the registry it reports absent; a Send whose lookup reported
\* absent returns at once with the not-found error for that name, without
\* starting any provider send; and a Send that has returned not-found has
\* started none.
C16_SendNotFound ==
    [][\A t \in Slots :
          op[t].name = "Send" =>
              /\ (pc[t] = "get_body" /\ pc'[t] = "r_unlock" /\ op[t].arg \notin DOMAIN notifiers) =>
                    ~ret'[t].exists
              /\ (pc[t] = "send_check" /\ pc'[t] # "send_check" /\ ~ret[t].exists) =>
                    /\ pc'[t] = "done"
                    /\ ret'[t] = [kind |-> "error", err |-> NotFoundErr(op[t].arg)]
                    /\ NothingSent(t)' /\ cur'[t] = NoCur /\ returned'[t] = <<>>
              /\ (pc[t] = "done" /\ ret[t].err.kind = "notfound") =>
                    NothingSent(t) /\ returned[t] = <<>>
      ]_vars

C16_Witness ==
    \E t \in Slots :
        /\ op[t].name = "Send" /\ op[t].rich /\ pc[t] = "done"
        /\ ret[t] = [kind |-> "error", err |-> NotFoundErr(op[t].arg)]
        /\ op[t].arg \notin DOMAIN notifiers /\ DOMAIN notifiers # {}
        /\ NothingSent(t)

\* C17: a Send / SendWithOptions whose lookup found a provider starts one
\* provider send and no more: on the provider the lookup returned, under the
\* name asked for, with the capability that matches the method (Send for
\* Send, SendWithOptions for SendWithOptions), the caller's context and the
\* caller's text or message; it returns exactly what that send returned,
\* nil or the provider's error value itself.
C17_SendDelegates ==
    \A t \in Slots :
        op[t].name = "Send" =>
            /\ \A m \in Names : sent[t][m] <= (IF m = op[t].arg THEN 1 ELSE 0)
            /\ pc[t] = "send_call" =>
                  /\ ret[t].exists /\ sent[t][op[t].arg] = 1 /\ returned[t] = <<>>
                  /\ cur[t] = [name |-> op[t].arg, nt |-> ret[t].nt, ctx |-> op[t].ctx,
                               rich |-> op[t].rich, msg |-> op[t].msg]
            /\ pc[t] = "done" =>
                  IF ret[t].err = NotFoundErr(op[t].arg)
                  THEN NothingSent(t)
                  ELSE /\ sent[t][op[t].arg] = 1
                       /\ Len(returned[t]) = 1 /\ returned[t][1].name = op[t].arg
                       /\ ret[t] = [kind |-> "error", err |-> returned[t][1].err]

C17_Witness ==
    \E t \in Slots :
        /\ op[t].name = "Send" /\ op[t].rich /\ op[t].msg = "alert" /\ pc[t] = "done"
        /\ Cardinality(DOMAIN notifiers) >= 2
        /\ Len(returned[t]) = 1 /\ returned[t][1].err.kind = "provider"
        /\ ret[t].err = returned[t][1].err
        /\ sent[t][op[t].arg] = 1

----------------------------------------------------------------------------
\* Independence of the providers of a concurrent broadcast (SpecAsync)

\* C18: each unit of a BroadcastAsync calls its provider at most once and
\* every result on the stream reports the outcome of its own provider's one
\* send: Success exactly when that send returned nil, Error what it returned,
\* whatever the other units returned and in whatever order; at closure every
\* provider of the snapshot has been called once and has its one result.
C18_ProvidersIndependent ==
    \A t \in Slots : \A n \in DOMAIN snap[t] :
        /\ units[t][n].sends <= 1
        /\ \A i \in ResultsFor(t, n) :
              /\ units[t][n].sends = 1
              /\ Delivered(t)[i].Success = (units[t][n].err = NoErr)
              /\ Delivered(t)[i].Error = units[t][n].err
        /\ closed[t] => units[t][n].sends = 1 /\ Cardinality(ResultsFor(t, n)) = 1

C18_Witness ==
    \E t \in Slots : \E n, m \in DOMAIN snap[t] :
        /\ closed[t] /\ ~cancelled[t]
        /\ units[t][n].err = ProviderErr(units[t][n].nt) /\ units[t][m].err = NoErr
        /\ Len(Delivered(t)) = 2
        /\ Delivered(t)[1] = [Provider |-> n, Success |-> FALSE, Error |-> units[t][n].err]
        /\ Delivered(t)[2] = [Provider |-> m, Success |-> TRUE, Error |-> NoErr]

\* the units of call t that are inside their provider's send
InFlight(t) == {n \in Names : units[t][n].st = "sending"}

\* C23: the units of a BroadcastAsync inside a provider send are never more
\* than the snapshot has entries, and nothing holds a unit back: the spawn
\* loop can always start the next unit and a spawned unit can always call its
\* provider, however many other units are inside a send and whether or not
\* any has finished (so all N can be in flight at once).
C23_ConcurrencyDegree ==
    \A t \in Slots :
        /\ Cardinality(InFlight(t)) <= Cardinality(DOMAIN snap[t])
        /\ \A n \in Names :
              /\ (pc[t] = "ba_spawn" /\ n \in SpawnTodo(t)) => ENABLED SpawnUnit(t, n)
              /\ units[t][n].st = "ready" => ENABLED UnitSend(t, n)

C23_Witness ==
    \E t \in Slots :
        /\ Cardinality(DOMAIN snap[t]) = NumNames
        /\ InFlight(t) = DOMAIN snap[t]
        /\ pc[t] = "ba_recv"

\* C21: every result on the stream of a BroadcastAsync, and every result the
\* caller has in hand at the end, names a key of the snapshot, has Success
\* true exactly when its Error is nil, and carries as Error the very value the
\* send of the provider stored under that key returned (nil, that provider's
\* own error, or the context's error).
C21_ResultFields ==
    \A t \in Slots :
        /\ \A i \in 1..Len(Delivered(t)) :
              LET r == Delivered(t)[i] IN
                  /\ r.Provider \in DOMAIN snap[t]
                  /\ units[t][r.Provider].nt = snap[t][r.Provider]
                  /\ r.Success = (r.Error = NoErr)
                  /\ r.Error = units[t][r.Provider].err
                  /\ r.Error \in {NoErr, CtxErr, ProviderErr(snap[t][r.Provider])}
        /\ (op[t].name = "BroadcastAsync" /\ pc[t] = "done") => ret[t].res = Delivered(t)

C21_Witness ==
    \E t \in Slots : \E a, b \in DOMAIN snap[t] :
        /\ op[t].name = "BroadcastAsync" /\ pc[t] = "done"
        /\ ret[t].res = << [Provider |-> a, Success |-> TRUE, Error |-> NoErr],
                           [Provider |-> b, Success |-> FALSE, Error |-> ProviderErr(snap[t][b])] >>

----------------------------------------------------------------------------
\* Order and errors of the synchronous broadcast (SpecSync)

\* C19: in a Broadcast the sends started are at most one more than the sends
\* that returned, one more exactly while a send is in progress; the sends
\* returned in the order they were started; while a send is in progress every
\* name the loop has not produced yet is unattempted.
C19_OneSendAtATime ==
    \A t \in Slots :
        op[t].name = "Broadcast" =>
            /\ Len(visited[t]) - Len(returned[t]) = (IF pc[t] = "b_send" THEN 1 ELSE 0)
            /\ \A i \in 1..Len(returned[t]) :
                  i <= Len(visited[t]) /\ returned[t][i].name = visited[t][i]
            /\ \A n \in Names : sent[t][n] = Cardinality({i \in 1..Len(visited[t]) : visited[t][i] = n})
            /\ pc[t] = "b_send" =>
                  /\ cur[t].name = visited[t][Len(visited[t])]
                  /\ \A n \in BroadcastTodo(t) : sent[t][n] = 0

C19_Witness ==
    \E t \in Slots :
        /\ op[t].name = "Broadcast" /\ pc[t] = "b_send"
        /\ Len(visited[t]) = 1 /\ returned[t] = <<>>
        /\ BroadcastTodo(t) # {}
        /\ \A n \in BroadcastTodo(t) : sent[t][n] = 0

\* the failures among the sends that returned, in the order of the sends,
\* each as the registry name it was made under and the error it returned
RECURSIVE FailuresOf(_)
FailuresOf(q) ==
    IF q = <<>> THEN <<>>
    ELSE IF Head(q).err = NoErr THEN FailuresOf(Tail(q))
    ELSE <<[name |-> Head(q).name, wraps |-> Head(q).err]>> \o FailuresOf(Tail(q))

\* C20: the errors slice of a Broadcast is at every moment the failures of
\* the sends that returned so far, in the order the sends were made, each
\* tagged with the registry name and wrapping the error the provider
\* returned; Broadcast returns that slice once every send has returned, and
\* it is empty exactly when no send failed.
C20_ErrorsInAttemptOrder ==
    \A t \in Slots :
        op[t].name = "Broadcast" =>
            /\ errors[t] = FailuresOf(returned[t])
            /\ pc[t] \in {"r_unlock", "done"} =>
                  /\ Len(returned[t]) = Len(visited[t])
                  /\ ret[t] = [kind |-> "errors", errs |-> FailuresOf(returned[t])]
                  /\ (ret[t].errs = <<>>) <=>
                        (\A i \in 1..Len(returned[t]) : returned[t][i].err = NoErr)
                  /\ Len(ret[t].errs) = Cardinality(failed[t])

C20_Witness ==
    \E t \in Slots :
        /\ op[t].name = "Broadcast" /\ pc[t] = "done"
        /\ Len(visited[t]) = 2 /\ Len(ret[t].errs) = 2
        /\ \A i \in 1..2 :
              /\ ret[t].errs[i].name = visited[t][i]
              /\ ret[t].errs[i].wraps.kind = "provider"

----------------------------------------------------------------------------
\* The registry a synchronous broadcast runs on (SpecStart)

\* C22 (as claimed): the providers a Broadcast attempts are those of the
\* registry of the moment the call began: each send is made on the provider
\* that registry holds under the name, and when the loop is over the names
\* attempted are that registry's names.
C22_AttemptsAreRegistryAtCall ==
    \A t \in Slots :
        op[t].name = "Broadcast" =>
            /\ pc[t] = "b_send" =>
                  /\ cur[t].name \in DOMAIN op[t].reg
                  /\ cur[t].nt = op[t].reg[cur[t].name]
            /\ pc[t] \in {"r_unlock", "done"} => Range(visited[t]) = DOMAIN op[t].reg

\* C22 (amended): the providers a Broadcast attempts are those of the
\* registry of the moment the call takes the read lock: each send is made on
\* the provider that registry holds under the name, and when the loop is over
\* the names attempted are that registry's names, whatever Register and
\* Unregister have done to the registry since.
C22_AttemptsAreRegistryAtLock ==
    \A t \in Slots :
        op[t].name = "Broadcast" =>
            /\ pc[t] = "b_send" =>
                  /\ cur[t].name \in DOMAIN op[t].lock
                  /\ cur[t].nt = op[t].lock[cur[t].name]
            /\ pc[t] \in {"r_unlock", "done"} => Range(visited[t]) = DOMAIN op[t].lock

C22_Witness ==
    \E t \in Slots :
        /\ op[t].name = "Broadcast" /\ pc[t] = "done"
        /\ visited[t] # <<>>
        /\ op[t].reg # op[t].lock
        /\ notifiers # op[t].lock

----------------------------------------------------------------------------
\* What Register accepts (SpecArgs)

\* C24 (as claimed): a Register called with a provider reference that is
\* nil, the nil Notifier or a nil pointer of a provider type, never takes the
\* lock and never changes the registry; it returns the error that says the
\* notifier is nil, which is not the error of a duplicate name.
C24_NilRejected ==
    [][\A t \in Slots :
          (op'[t].name = "Register" /\ op'[t].arg \in {NilProvider, NilPointer}
             /\ pc'[t] # pc[t]) =>
              /\ notifiers' = notifiers /\ mu' = mu
              /\ pc'[t] \in {"reg_nil", "done"}
              /\ pc'[t] = "done" =>
                    /\ ret'[t] = [kind |-> "error", err |-> InvalidErr]
                    /\ \A n \in AnyNames : ret'[t].err # DuplicateErr(n)
      ]_vars

----------------------------------------------------------------------------
\* List against the abstract set of names (SpecRegistry)

\* the orders in which the calls of W can have taken effect: a call that had
\* returned before another began comes first
Orders(W) ==
    {o \in [1..Cardinality(W) -> W] :
        /\ \A i, j \in DOMAIN o : o[i] = o[j] => i = j
        /\ \A i, j \in DOMAIN o : i < j => o[j] \notin op[o[i]].after}

\* the abstract set after call s: a Register that returned nil adds its name,
\* an Unregister removes its name, a Register that failed changes nothing
Effect(s, S) ==
    IF op[s].name = "Unregister" THEN S \ {op[s].arg}
    ELSE IF ret[s] = [kind |-> "error", err |-> NoErr] THEN S \cup {NameOf(op[s].arg)}
    ELSE S

RECURSIVE Replay(_, _, _)
Replay(o, i, S) == IF i > Len(o) THEN S ELSE Replay(o, i + 1, Effect(o[i], S))

\* C25: a List never names a provider twice; when every Register and
\* Unregister on record had returned before the List began, the names it
\* returns are exactly the set obtained by replaying those calls, in an order
\* in which they can have taken effect, from the empty set (with no such call
\* the List is empty).
C25_ListRefines ==
    NoCallForgotten =>
        \A g \in Slots :
            (op[g].name = "List" /\ HasRead(g)) =>
                /\ Len(ret[g].names) = Cardinality(Range(ret[g].names))
                /\ {w \in Slots : IsWriter(w)} \subseteq op[g].after =>
                      \E o \in Orders({w \in Slots : IsWriter(w)}) :
                          Range(ret[g].names) = Replay(o, 1, {})

C25_Witness ==
    \E g \in Slots : \E s, u \in op[g].after :
        /\ op[g].name = "List" /\ pc[g] = "done"
        /\ RegisterOk(s, 1) /\ IsUnregister(u, 1)
        /\ u \notin op[s].after /\ s \notin op[u].after
        /\ ret[g].names = <<1>>
        /\ {w \in Slots : IsWriter(w)} \subseteq op[g].after

----------------------------------------------------------------------------
\* The keys of the registry (SpecArgs)

\* C26: no key of the registry is the empty string: Register never stores a
\* provider whose Name() is empty.
C26_KeysNonEmpty == EmptyName \notin DOMAIN notifiers

----------------------------------------------------------------------------
\* Keys and names (SpecSync)

\* C27: every entry of the registry is stored under the name its provider
\* reports; a Get that finds a provider for a name returns one that reports
\* that name; the name under which a synchronous broadcast sends and under
\* which it reports a failure is the key of the provider that was sent to.
C27_KeyedByName ==
    /\ \A n \in DOMAIN notifiers : NameOf(notifiers[n]) = n
    /\ \A t \in Slots :
          /\ (op[t].name = "Get" /\ HasRead(t) /\ ret[t].exists) =>
                NameOf(ret[t].nt) = op[t].arg
          /\ (op[t].name = "Broadcast" /\ pc[t] = "b_send") =>
                /\ cur[t].name \in DOMAIN notifiers
                /\ notifiers[cur[t].name] = cur[t].nt
                /\ NameOf(cur[t].nt) = cur[t].name
          /\ \A i \in 1..Len(errors[t]) :
                \A q \in Providers :
                    errors[t][i].wraps = ProviderErr(q) => NameOf(q) = errors[t][i].name

C27_Witness ==
    /\ DOMAIN notifiers = Names
    /\ op[3].name = "Get" /\ pc[3] = "done" /\ ret[3].exists /\ ret[3].nt = NumProviders
    /\ op[1].name = "Broadcast" /\ pc[1] = "b_send"
    /\ \E i \in 1..Len(errors[1]) : errors[1][i].wraps = ProviderErr(notifiers[errors[1][i].name])

----------------------------------------------------------------------------
\* The type of the errors (SpecSync)

\* The providers build every error they return as &NotificationError{...};
\* the Manager builds its own errors, and the entries of Broadcast's slice,
\* with fmt.Errorf.
IsNotificationError(e) == "kind" \in DOMAIN e /\ e.kind \in {"provider", "canceled"}

\* C28: every error a Manager call returns is a NotificationError: the error
\* of Register, of Send and SendWithOptions, and each entry of the slice
\* Broadcast returns.
C28_AllNotificationErrors ==
    \A t \in Slots :
        /\ (ret[t].kind = "error" /\ ret[t].err # NoErr) => IsNotificationError(ret[t].err)
        /\ ret[t].kind = "errors" =>
              \A i \in 1..Len(ret[t].errs) : IsNotificationError(ret[t].errs[i])

----------------------------------------------------------------------------
\* The parse mode of the Telegram requests (SpecBuiltin)

\* C29: the parse mode carried by every request of a TelegramNotifier is the
\* ParseMode of the config it was built from; with an empty ParseMode the
\* request carries none.
C29_ParseModeAsConfigured ==
    "parse_mode" \in DOMAIN tg.req => tg.req.parse_mode = tg.config.ParseMode

----------------------------------------------------------------------------
\* Every call returns (SpecLive)

\* C30: whatever the interleaving of the calls, every Manager call that has
\* begun returns: the calls being finitely many, a moment comes after which
\* every caller is idle or has its call's result (BroadcastAsync has returned
\* the channel once the goroutines are spawned), so no call waits for ever; in
\* particular not the writer that waits for a Broadcast inside a provider send,
\* nor the reader that waits behind that writer.
C30_EveryCallReturns == <>[](\A t \in Slots : pc[t] \in {"idle", "done", "ba_recv"})

C30_Witness ==
    /\ op[1].name = "Broadcast" /\ pc[1] = "b_send" /\ 1 \in mu.readers
    /\ op[2].name \in {"Register", "Unregister"} /\ pc[2] = "w_wait"
    /\ op[3].name \in {"Get", "List", "Send"} /\ pc[3] = "r_lock"
    /\ ~ENABLED CallerSteps(2) /\ ~ENABLED CallerSteps(3)

----------------------------------------------------------------------------
\* The end of the result stream (SpecStream)

\* C31: the channel of every BroadcastAsync (the calls of slot 1) is closed
\* in the end, and the caller ranging over it comes to the end of the range
\* (RecvEnd, which needs the channel closed and empty); the channel is
\* never closed twice (that would panic), and never while a unit has still
\* to send or to deliver.
C31_StreamClosed ==
    /\ (op[1].name = "BroadcastAsync") ~> (closed[1] /\ pc[1] = "done")
    /\ [](/\ ~panicked
          /\ \A t \in Slots :
                closed[t] => \A n \in Names : units[t][n].st \in {"none", "done"})

C31_Witness ==
    \E t \in Slots :
        /\ op[t].name = "BroadcastAsync" /\ pc[t] = "done" /\ closed[t]
        /\ DOMAIN snap[t] = Names
        /\ Len(ret[t].res) = NumNames
        /\ \E i \in 1..NumNames : ret[t].res[i].Error # NoErr

----------------------------------------------------------------------------
\* A stream nobody reads (SpecAbandon)

\* C32: the channel never holds more results than the snapshot has entries,
\* a unit that has its result finds room in the buffer, and every
\* BroadcastAsync (the calls of slot 1) comes to the point where all its
\* units and the closing goroutine are finished and the channel is closed,
\* whether or not its caller receives anything.
C32_DeliveryNeverBlocks ==
    /\ [](\A t \in Slots :
             /\ Len(ch[t]) <= Cardinality(DOMAIN snap[t])
             /\ \A n \in Names : units[t][n].st = "returned" => Len(ch[t]) < chCap[t])
    /\ (op[1].name = "BroadcastAsync") ~> (closed[1] /\ ~Running(1))

C32_Witness ==
    /\ op[1].name = "BroadcastAsync" /\ pc[1] = "ba_recv"
    /\ DOMAIN snap[1] = Names
    /\ recvd[1] = <<>> /\ Len(ch[1]) = NumNames
    /\ closed[1] /\ ~Running(1)

----------------------------------------------------------------------------
\* After Unregister has returned (SpecAfter)

\* call g began after an Unregister of name n had returned, and every
\* Register of a provider of that name on record had returned before that
\* Unregister began
BeganAfterRemoval(g, n) ==
    /\ \E u \in op[g].after :
          /\ IsUnregister(u, n)
          /\ \A r \in Slots :
                (op[r].name = "Register" /\ NameOf(op[r].arg) = n) => r \in op[u].after

\* C33: a Send, Broadcast or BroadcastAsync that begins after Unregister(n)
\* has returned, with no Register of that name since, never invokes the
\* provider of that name: the Send returns the not-found error, the Broadcast
\* does not visit the name, the BroadcastAsync has no unit and no result for
\* it.
C33_NoInvocationAfterUnregister ==
    \A g \in Slots : \A n \in Names :
        BeganAfterRemoval(g, n) =>
            /\ sent[g][n] = 0 /\ cur[g].name # n
            /\ n \notin Range(visited[g])
            /\ n \notin DOMAIN snap[g] /\ units[g][n].st = "none"
            /\ \A i \in 1..Len(Delivered(g)) : Delivered(g)[i].Provider # n
            /\ (op[g].name = "Send" /\ op[g].arg = n /\ pc[g] = "done") =>
                  ret[g] = [kind |-> "error", err |-> NotFoundErr(n)]

C33_Witness ==
    \E r, u \in Slots :
        /\ RegisterOk(r, 1) /\ IsUnregister(u, 1) /\ r \in op[u].after
        /\ u \in op[1].after
        /\ op[1].name = "Send" /\ op[1].arg = 1 /\ pc[1] = "done"
        /\ ret[1].err = NotFoundErr(1)

----------------------------------------------------------------------------
\* Two Registers of one name at once (SpecRegistry)

\* C34: when two Register calls for providers of the same name n overlap
\* (neither had returned when the other began), every other mutation on
\* record had returned before both began and none of them concerns n, then
\* once both have returned exactly one has returned nil and the other the
\* duplicate error of n, the registry maps n to the provider of the one that
\* returned nil, and it holds that entry and what the other mutations left.
C34_OneRegisterWins ==
    NoCallForgotten =>
        \A s, r \in Slots :
            ( /\ s # r
              /\ op[s].name = "Register" /\ op[r].name = "Register"
              /\ NameOf(op[s].arg) = NameOf(op[r].arg)
              /\ pc[s] = "done" /\ pc[r] = "done"
              /\ s \notin op[r].after /\ r \notin op[s].after
              /\ \A w \in OtherWriters(s, r) :
                    /\ w \in op[s].after \cap op[r].after
                    /\ (IF op[w].name = "Register" THEN NameOf(op[w].arg) ELSE op[w].arg)
                          # NameOf(op[s].arg) )
            => /\ {ret[s].err, ret[r].err} = {NoErr, DuplicateErr(NameOf(op[s].arg))}
               /\ NameOf(op[s].arg) \in DOMAIN notifiers
               /\ notifiers[NameOf(op[s].arg)] = (IF ret[s].err = NoErr THEN op[s].arg ELSE op[r].arg)
               /\ \E o \in Orders(OtherWriters(s, r)) :
                     DOMAIN notifiers = Replay(o, 1, {}) \cup {NameOf(op[s].arg)}

C34_Witness ==
    \E s, r \in Slots :
        /\ op[s].name = "Register" /\ op[r].name = "Register"
        /\ op[s].arg # op[r].arg /\ NameOf(op[s].arg) = NameOf(op[r].arg)
        /\ s \notin op[r].after /\ r \notin op[s].after
        /\ pc[s] = "done" /\ pc[r] = "done"
        /\ ret[s].err = NoErr /\ ret[r].err = DuplicateErr(NameOf(op[r].arg))
        /\ notifiers[NameOf(op[s].arg)] = op[s].arg

----------------------------------------------------------------------------
\* What the reading operations leave alone (SpecLive)

\* C35: the registry changes only in the body of a Register or of an
\* Unregister: no step of Get, List, Send, SendWithOptions or of a broadcast,
\* of its goroutines or of a provider send, whatever it returns, changes it.
C35_ReadersLeaveRegistry ==
    [][notifiers' # notifiers =>
          \E t \in Slots :
              /\ op[t].name \in {"Register", "Unregister"}
              /\ pc[t] \in {"reg_body", "unreg_body"}
              /\ pc'[t] = "w_unlock"
      ]_vars

C35_Witness ==
    /\ DOMAIN notifiers # {}
    /\ op[3].name = "Send" /\ pc[3] = "done"
    /\ ret[3].err = NotFoundErr(op[3].arg)

----------------------------------------------------------------------------
\* Two asynchronous broadcasts at once (SpecPair)

\* C36: of two BroadcastAsync calls in progress at once, each channel holds
\* (or has handed to its reader) at most one result for each provider of the
\* call's own copy of the registry and none for any other, each result being
\* what the call's own unit got from its send; a unit is never kept from
\* starting its send, nor a closing goroutine from closing once the units of
\* its own call are done, by what the other call is doing; a closed channel
\* has the results of all the units of its call.
C36_BroadcastsIndependent ==
    \A t \in Slots :
        /\ \A i \in 1..Len(Delivered(t)) :
              /\ Delivered(t)[i].Provider \in DOMAIN snap[t]
              /\ Delivered(t)[i].Error = units[t][Delivered(t)[i].Provider].err
              /\ units[t][Delivered(t)[i].Provider].st \in {"delivered", "done"}
        /\ \A n \in Names :
              /\ Cardinality(ResultsFor(t, n)) <= 1
              /\ units[t][n].st = "ready" => ENABLED UnitSend(t, n)
        /\ (closer[t] = "wait" /\ \A n \in Names : units[t][n].st \in {"none", "done"}) =>
              ENABLED CloserWake(t)
        /\ closed[t] => Len(Delivered(t)) = Cardinality(DOMAIN snap[t])

C36_Witness ==
    \E n \in Names :
        /\ units[1][n].st = "sending" /\ units[2][n].st = "sending"
        /\ units[1][n].nt = units[2][n].nt

----------------------------------------------------------------------------
\* The built-in providers (SpecBuiltin)

\* C37: every PostMessageContext call SendWithOptions of a SlackNotifier makes
\* (for Send as well) names a non-empty channel and every request of a TelegramNotifier built by
\* NewTelegramNotifier carries a non-empty chat_id; a Slack send (Send or
\* SendWithOptions) whose message has no Channel, by a notifier that has no
\* default channel, returns a NotificationError of the provider without
\* calling the API.
C37_NoEmptyDestination ==
    /\ [](/\ (sl.posted /\ sl.post.call = "SendWithOptions") => sl.post.channel # ""
          /\ tg.req # NoRequest => tg.req.chat_id # "")
    /\ [][\A msg \in SlackMessages :
             (msg.Channel = "" /\ sl.s.defaultChannel = "" /\ SlackSendWithOptions(msg)) =>
                 /\ ~sl'.posted /\ ~sl'.busy
                 /\ sl'.err # NoErr /\ sl'.err.prov = "slack"]_vars

C37_Witness ==
    /\ sl.made /\ sl.s.client # "" /\ sl.s.defaultChannel = ""
    /\ sl.msg.Text # "" /\ sl.msg.Channel = ""
    /\ sl.err = SlackErr("channel is required")
    /\ ~sl.posted /\ ~sl.busy

\* C38: a send of either built-in provider (Send or SendWithOptions) with an
\* empty text returns an error and makes no request, whatever the other fields
\* of the message are; a request is made, and a send returns nil, only for a
\* message whose text is not empty.
C38_EmptyTextRefused ==
    /\ [][/\ \A msg \in SlackMessages :
               (msg.Text = "" /\ SlackSendWithOptions(msg)) =>
                   (sl'.err # NoErr /\ ~sl'.posted /\ ~sl'.busy)
          /\ \A msg \in Messages :
               (msg.Text = "" /\ TelegramSendWithOptions(msg)) =>
                   (tg'.err # NoErr /\ tg'.req = NoRequest /\ ~tg'.busy)]_vars
    /\ [](/\ (sl.posted /\ sl.post.call = "SendWithOptions") => sl.msg.Text # ""
          /\ tg.req.method = "sendMessage" => tg.msg.Text # "")

C38_Witness ==
    /\ sl.made /\ sl.s.client # "" /\ sl.s.defaultChannel # ""
    /\ sl.msg.Text = "" /\ sl.msg.Title # "" /\ sl.msg.Channel # "" /\ sl.msg.Priority # ""
    /\ Len(sl.msg.Attachments) > 0 /\ sl.msg.Metadata # ""
    /\ sl.err = SlackErr("message text is required")
    /\ ~sl.posted /\ ~sl.busy

\* C39: the options a SlackNotifier passes to PostMessageContext are, for a
\* message with a title, the username, the icon emoji and the attachments
\* (those there are, in that order) followed by one blocks option with the
\* title as header and the text as section, and no text option; for a message
\* without a title, the text option first, then the same others, and no
\* blocks option.
C39_TitleReplacesText ==
    (sl.posted /\ sl.post.call = "SendWithOptions") =>
        LET o == sl.post.options
            others ==
                (IF sl.s.username # "" THEN <<[opt |-> "Username", username |-> sl.s.username]>>
                 ELSE <<>>)
                \o (IF sl.s.iconEmoji # ""
                    THEN <<[opt |-> "IconEmoji", emoji |-> sl.s.iconEmoji]>> ELSE <<>>)
                \o (IF sl.msg.Attachments # <<>>
                    THEN <<[opt |-> "Attachments",
                            attachments |-> ConvertAttachments(sl.msg.Attachments)]>>
                    ELSE <<>>)
        IN  /\ SelectSeq(o, LAMBDA x : x.opt \notin {"Text", "Blocks"}) = others
            /\ sl.msg.Title # "" =>
                  /\ \A i \in 1..Len(o) : o[i].opt # "Text"
                  /\ Len(o) = Len(others) + 1
                  /\ o[Len(o)] = [opt |-> "Blocks", header |-> sl.msg.Title,
                                  section |-> sl.msg.Text]
            /\ sl.msg.Title = "" =>
                  /\ o[1] = [opt |-> "Text", text |-> sl.msg.Text]
                  /\ Len(o) = Len(others) + 1
                  /\ \A i \in 1..Len(o) : o[i].opt # "Blocks"

C39_Witness ==
    /\ sl.posted /\ sl.post.call = "SendWithOptions"
    /\ sl.msg.Title # "" /\ Len(sl.msg.Attachments) = 2
    /\ sl.s.username # "" /\ sl.s.iconEmoji # ""
    /\ Len(sl.post.options) = 4

====
